---- MODULE Spec2Model ----
(***************************************************************************)
(* Firewall Builder: the rule validation and compilation engine            *)
(* (validateIP, validatePort, validateRule, exportToIptables,              *)
(* exportToJSON, generateId) and the App component that owns the rule      *)
(* collection (create, edit, toggle, delete, import, filter, re-render).   *)
(*                                                                         *)
(* Text is modelled as a sequence of one-character strings, so that        *)
(* split, trim, toLowerCase, parseInt and the regular expressions are      *)
(* computed character by character as the code computes them.  Closed      *)
(* enumerations (protocol, action) are TLA+ strings.                       *)
(***************************************************************************)
EXTENDS Integers, Sequences, FiniteSets, TLC

(***************************************************************************)
(* Characters and the string primitives of the JavaScript runtime          *)
(***************************************************************************)

Digits == <<"0", "1", "2", "3", "4", "5", "6", "7", "8", "9">>

IsDigit(c) == \E i \in 1..10 : Digits[i] = c

DigitVal(c) == (CHOOSE i \in 1..10 : Digits[i] = c) - 1

\* Hexadecimal digits that parseInt reads after a 0x prefix.
HexLetters == <<"a", "b", "c", "d", "e", "f">>

HexUpper == <<"A", "B", "C", "D", "E", "F">>

IsHexDigit(c) ==
    \/ IsDigit(c)
    \/ \E i \in 1..6 : HexLetters[i] = c \/ HexUpper[i] = c

HexVal(c) ==
    IF IsDigit(c) THEN DigitVal(c)
    ELSE 9 + (CHOOSE i \in 1..6 : HexLetters[i] = c \/ HexUpper[i] = c)

\* String.prototype.toLowerCase on one character (the Latin letters)
LowerChar(c) ==
    CASE c = "A" -> "a"
      [] c = "B" -> "b"
      [] c = "C" -> "c"
      [] c = "D" -> "d"
      [] c = "E" -> "e"
      [] c = "F" -> "f"
      [] c = "G" -> "g"
      [] c = "H" -> "h"
      [] c = "I" -> "i"
      [] c = "J" -> "j"
      [] c = "K" -> "k"
      [] c = "L" -> "l"
      [] c = "M" -> "m"
      [] c = "N" -> "n"
      [] c = "O" -> "o"
      [] c = "P" -> "p"
      [] c = "Q" -> "q"
      [] c = "R" -> "r"
      [] c = "S" -> "s"
      [] c = "T" -> "t"
      [] c = "U" -> "u"
      [] c = "V" -> "v"
      [] c = "W" -> "w"
      [] c = "X" -> "x"
      [] c = "Y" -> "y"
      [] c = "Z" -> "z"
      [] OTHER -> c

toLowerCase(s) == [i \in 1..Len(s) |-> LowerChar(s[i])]

IsSpace(c) == c = " "

RECURSIVE trimStart(_)
trimStart(s) ==
    IF s # <<>> /\ IsSpace(Head(s)) THEN trimStart(Tail(s)) ELSE s

RECURSIVE trimEnd(_)
trimEnd(s) ==
    IF s # <<>> /\ IsSpace(s[Len(s)]) THEN trimEnd(SubSeq(s, 1, Len(s) - 1)) ELSE s

\* String.prototype.trim
trim(s) == trimEnd(trimStart(s))

\* String.prototype.includes for a one-character needle
includes(s, c) == \E i \in 1..Len(s) : s[i] = c

\* String.prototype.split(sep) for a one-character separator: the pieces
\* between separators, empty pieces included ("".split(",") is [""]).
RECURSIVE splitFrom(_, _, _)
splitFrom(s, sep, cur) ==
    IF s = <<>> THEN <<cur>>
    ELSE IF Head(s) = sep THEN <<cur>> \o splitFrom(Tail(s), sep, <<>>)
    ELSE splitFrom(Tail(s), sep, Append(cur, Head(s)))

split(s, sep) == splitFrom(s, sep, <<>>)

\* The value NaN of parseInt; a parsed number carries its value.
NaN == [nan |-> TRUE, val |-> 0]

Num(n) == [nan |-> FALSE, val |-> n]

RECURSIVE digitPrefix(_, _)
\* value of the longest prefix of decimal digits, given the value so far
digitPrefix(s, acc) ==
    IF s # <<>> /\ IsDigit(Head(s))
    THEN digitPrefix(Tail(s), acc * 10 + DigitVal(Head(s)))
    ELSE acc

RECURSIVE hexPrefix(_, _)
hexPrefix(s, acc) ==
    IF s # <<>> /\ IsHexDigit(Head(s))
    THEN hexPrefix(Tail(s), acc * 16 + HexVal(Head(s)))
    ELSE acc

\* parseInt(string) with no radix: leading white space is skipped, a sign is
\* read, a 0x/0X prefix selects radix 16, then the longest prefix of digits
\* is the value and whatever follows is ignored; no digit at all gives NaN.
parseIntLenient(str) ==
    LET s0 == trimStart(str)
        neg == s0 # <<>> /\ Head(s0) = "-"
        s1 == IF s0 # <<>> /\ Head(s0) \in {"+", "-"} THEN Tail(s0) ELSE s0
        hex == Len(s1) >= 2 /\ s1[1] = "0" /\ s1[2] \in {"x", "X"}
        s2 == IF hex THEN SubSeq(s1, 3, Len(s1)) ELSE s1
        v  == IF hex THEN hexPrefix(s2, 0) ELSE digitPrefix(s2, 0)
        any == s2 # <<>> /\ (IF hex THEN IsHexDigit(Head(s2)) ELSE IsDigit(Head(s2)))
    IN  IF ~any THEN NaN ELSE Num(IF neg THEN 0 - v ELSE v)

parseInt(str) == parseIntLenient(str)

\* num >= lo && num <= hi, false on NaN
inRange(n, lo, hi) == ~n.nan /\ n.val >= lo /\ n.val <= hi

RECURSIVE dec(_)
\* Number.prototype.toString(): the decimal digits of a natural number
dec(n) == IF n < 10 THEN <<Digits[n + 1]>> ELSE Append(dec(n \div 10), Digits[(n % 10) + 1])

RECURSIVE zeros(_)
zeros(k) == IF k <= 0 THEN <<>> ELSE <<"0">> \o zeros(k - 1)

\* n in decimal, padded with leading zeros to width w
decPad(n, w) == zeros(w - Len(dec(n))) \o dec(n)

(***************************************************************************)
(* validateIP (AddressMatcher)                                             *)
(***************************************************************************)

Str_Star == <<"*">>

Str_ANY == <<"A", "N", "Y">>

Str_any == <<"a", "n", "y">>

\* \d{n,m} anchored at both ends
digitsBetween(s, n, m) ==
    Len(s) >= n /\ Len(s) <= m /\ \A i \in 1..Len(s) : IsDigit(s[i])

\* /^(\d{1,3}\.){3}\d{1,3}$/ : four groups of one to three digits with a dot
\* between them, which is what splitting at the dots gives.
ipv4Regex(s) ==
    LET g == split(s, ".")
    IN  Len(g) = 4 /\ \A i \in 1..4 : digitsBetween(g[i], 1, 3)

\* /^(\d{1,3}\.){3}\d{1,3}\/\d{1,2}$/
cidrRegex(s) ==
    LET g == split(s, "/")
    IN  Len(g) = 2 /\ ipv4Regex(g[1]) /\ digitsBetween(g[2], 1, 2)

\* /^(\d{1,3}\.){3}\d{1,3}-(\d{1,3}\.){3}\d{1,3}$/
rangeRegex(s) ==
    LET g == split(s, "-")
    IN  Len(g) = 2 /\ ipv4Regex(g[1]) /\ ipv4Regex(g[2])

\* ip === '*' || ip === 'ANY' || ip.toLowerCase() === 'any'
isWildcard(s) == s = Str_Star \/ s = Str_ANY \/ toLowerCase(s) = Str_any

\* an octet check that only looks at the shape of the octet
octetOkNoBound(part) == ~parseInt(part).nan

\* part => { num = parseInt(part); return num >= 0 && num <= 255 }
octetOk(part) == inRange(parseInt(part), 0, 255)

\* cidrNum >= 0 && cidrNum <= 32
prefixOk(cidr) == inRange(parseInt(cidr), 0, 32)

RECURSIVE validateIP(_)
validateIP(ip) ==
    IF isWildcard(ip) THEN TRUE
    ELSE IF ipv4Regex(ip)
    THEN LET parts == split(ip, ".")
         IN  \A i \in 1..Len(parts) : octetOk(parts[i])
    ELSE IF cidrRegex(ip)
    THEN LET g == split(ip, "/")
         IN  validateIP(g[1]) /\ prefixOk(g[2])
    ELSE IF rangeRegex(ip)
    THEN LET g == split(ip, "-")
         IN  validateIP(g[1]) /\ validateIP(g[2])
    ELSE FALSE

(***************************************************************************)
(* validatePort (PortMatcher)                                              *)
(***************************************************************************)

Protocols == {"TCP", "UDP", "ICMP", "ALL"}

Actions == {"ALLOW", "DENY"}

MinPort == 1

MaxPort == 65535

\* the range branch: [start, end] = port.split('-').map(p => parseInt(p.trim()))
portRangeOk(port) ==
    LET g == split(port, "-")
        start == parseInt(trim(g[1]))
        end == parseInt(trim(g[2]))
    IN  /\ ~start.nan /\ ~end.nan
        /\ start.val >= MinPort /\ start.val <= MaxPort
        /\ end.val >= MinPort /\ end.val <= MaxPort
        /\ start.val <= end.val

\* the last branch: portNum = parseInt(port)
portSingleOk(port) == inRange(parseInt(port), MinPort, MaxPort)

\* a port check with no exemption for any protocol
icmpNotExempt(protocol) == FALSE

\* if (protocol === 'ICMP') return true
icmpExempt(protocol) == protocol = "ICMP"

RECURSIVE validatePort(_, _)
validatePort(port, protocol) ==
    IF isWildcard(port) THEN TRUE
    ELSE IF icmpExempt(protocol) THEN TRUE
    ELSE IF includes(port, ",")
    THEN LET g == split(port, ",")
         IN  \A i \in 1..Len(g) : validatePort(trim(g[i]), protocol)
    ELSE IF includes(port, "-") THEN portRangeOk(port)
    ELSE portSingleOk(port)

(***************************************************************************)
(* validateRule (RuleValidator)                                            *)
(***************************************************************************)

Err(f, m) == [field |-> f, message |-> m]

\* if (!rule.name?.trim()) errors.push(...)
nameErrors(rule) ==
    IF trim(rule.name) = <<>> THEN <<Err("name", "Rule name is required")>> ELSE <<>>

\* the two address checks as two separate ifs: both may push
ipErrorsBoth(ip, field, required) ==
    (IF trim(ip) = <<>> THEN <<Err(field, required)>> ELSE <<>>)
    \o (IF ~validateIP(ip) THEN <<Err(field, "Invalid IP address format")>> ELSE <<>>)

\* if (!ip?.trim()) push 'required' else if (!validateIP(ip)) push 'invalid'
ipErrors(ip, field, required) ==
    IF trim(ip) = <<>> THEN <<Err(field, required)>>
    ELSE IF ~validateIP(ip) THEN <<Err(field, "Invalid IP address format")>>
    ELSE <<>>

\* if (port && !validatePort(port, rule.protocol)) errors.push(...)
portErrors(port, protocol, field) ==
    IF port # <<>> /\ ~validatePort(port, protocol)
    THEN <<Err(field, "Invalid port format")>> ELSE <<>>

validateRule(rule) ==
    nameErrors(rule)
    \o ipErrors(rule.sourceIp, "sourceIp", "Source IP is required")
    \o ipErrors(rule.destinationIp, "destinationIp", "Destination IP is required")
    \o portErrors(rule.sourcePort, rule.protocol, "sourcePort")
    \o portErrors(rule.destinationPort, rule.protocol, "destinationPort")

(***************************************************************************)
(* exportToIptables (ScriptCompiler)                                       *)
(***************************************************************************)

\* the text of a protocol or action tag
tagText(tag) ==
    CASE tag = "TCP" -> <<"T", "C", "P">>
      [] tag = "UDP" -> <<"U", "D", "P">>
      [] tag = "ICMP" -> <<"I", "C", "M", "P">>
      [] tag = "ALL" -> <<"A", "L", "L">>
      [] tag = "ALLOW" -> <<"A", "L", "L", "O", "W">>
      [] tag = "DENY" -> <<"D", "E", "N", "Y">>

\* rule => rule.enabled
isEnabled(rule) == rule.enabled

\* the comparator with its operands exchanged
comparePriorityReversed(a, b) == b.priority - a.priority

\* (a, b) => a.priority - b.priority
comparePriority(a, b) == a.priority - b.priority

\* Array.prototype.filter(rule => rule.enabled)
filterEnabled(rules) == SelectSeq(rules, isEnabled)

RECURSIVE insertByPriority(_, _)
\* x placed after every element that does not compare greater than it
insertByPriority(sorted, x) ==
    IF sorted = <<>> THEN <<x>>
    ELSE IF comparePriority(x, sorted[Len(sorted)]) < 0
    THEN Append(insertByPriority(SubSeq(sorted, 1, Len(sorted) - 1), x), sorted[Len(sorted)])
    ELSE Append(sorted, x)

RECURSIVE sortPrefixByPriority(_, _)
sortPrefixByPriority(s, n) ==
    IF n = 0 THEN <<>> ELSE insertByPriority(sortPrefixByPriority(s, n - 1), s[n])

\* Array.prototype.sort((a, b) => a.priority - b.priority): a stable sort
sortByPriority(s) == sortPrefixByPriority(s, Len(s))

Text(t) == [kind |-> "text", text |-> t]

Blank == [kind |-> "blank"]

Clause(o, a) == [opt |-> o, arg |-> a]

\* rule.sourceIp !== '*' && rule.sourceIp !== 'ANY' (and the same test on
\* the destination address and on the ports)
notWildcardLiteral(s) == s # Str_Star /\ s # Str_ANY

\* if (rule.protocol !== 'ALL') command += ` -p ${rule.protocol.toLowerCase()}`
protocolClause(rule) ==
    IF rule.protocol # "ALL"
    THEN <<Clause("-p", toLowerCase(tagText(rule.protocol)))>> ELSE <<>>

sourceClause(rule) ==
    IF notWildcardLiteral(rule.sourceIp) THEN <<Clause("-s", rule.sourceIp)>> ELSE <<>>

destinationClause(rule) ==
    IF notWildcardLiteral(rule.destinationIp)
    THEN <<Clause("-d", rule.destinationIp)>> ELSE <<>>

\* if (protocol !== 'ICMP' && protocol !== 'ALL') { --sport ...; --dport ... }
portClauses(rule) ==
    IF rule.protocol # "ICMP" /\ rule.protocol # "ALL"
    THEN (IF rule.sourcePort # <<>> /\ notWildcardLiteral(rule.sourcePort)
          THEN <<Clause("--sport", rule.sourcePort)>> ELSE <<>>)
         \o (IF rule.destinationPort # <<>> /\ notWildcardLiteral(rule.destinationPort)
             THEN <<Clause("--dport", rule.destinationPort)>> ELSE <<>>)
    ELSE <<>>

\* command += rule.action === 'ALLOW' ? ' -j ACCEPT' : ' -j DROP'
targetClause(rule) ==
    IF rule.action = "ALLOW"
    THEN <<Clause("-j", <<"A", "C", "C", "E", "P", "T">>)>>
    ELSE <<Clause("-j", <<"D", "R", "O", "P">>)>>

\* the directive of one rule: 'iptables -A INPUT' and its clauses
commandOf(rule) ==
    [kind |-> "command", base |-> "iptables -A INPUT",
     clauses |-> protocolClause(rule) \o sourceClause(rule) \o destinationClause(rule)
                 \o portClauses(rule) \o targetClause(rule)]

\* the lines forEach appends for the rule at position index (0-based)
blockOf(rule, index) ==
    <<[kind |-> "rule", index |-> index + 1, name |-> rule.name]>>
    \o (IF rule.description # <<>>
        THEN <<[kind |-> "description", text |-> rule.description]>> ELSE <<>>)
    \o <<commandOf(rule), Blank>>

RECURSIVE blocksOf(_, _)
\* the blocks of the first n rules of the sorted list
blocksOf(sorted, n) ==
    IF n = 0 THEN <<>> ELSE blocksOf(sorted, n - 1) \o blockOf(sorted[n], n - 1)

preamble(count, now) ==
    << Text("#!/bin/bash"),
       Text("# Generated Firewall Rules"),
       [kind |-> "generated", at |-> now],
       [kind |-> "total", count |-> count],
       Blank,
       Text("# Flush existing rules"),
       Text("iptables -F"),
       Text("iptables -X"),
       Text("iptables -t nat -F"),
       Text("iptables -t nat -X"),
       Blank,
       Text("# Set default policies"),
       Text("iptables -P INPUT DROP"),
       Text("iptables -P FORWARD DROP"),
       Text("iptables -P OUTPUT ACCEPT"),
       Blank,
       Text("# Allow loopback traffic"),
       Text("iptables -A INPUT -i lo -j ACCEPT"),
       Text("iptables -A OUTPUT -o lo -j ACCEPT"),
       Blank,
       Text("# Allow established and related connections"),
       Text("iptables -A INPUT -m state --state ESTABLISHED,RELATED -j ACCEPT"),
       Blank >>

trailer ==
    << Text("# Log dropped packets (optional)"),
       Text("# iptables -A INPUT -j LOG --log-prefix \"DROPPED: \""),
       Blank >>

\* rules.filter(rule => rule.enabled).sort((a, b) => a.priority - b.priority)
enabledRulesOf(rules) == sortByPriority(filterEnabled(rules))

\* a script whose header counts every rule, enabled or not
exportToIptablesCountingAll(rules, now) ==
    LET enabledRules == enabledRulesOf(rules)
    IN  preamble(Len(rules), now)
        \o blocksOf(enabledRules, Len(enabledRules))
        \o trailer

\* the script as its sequence of lines; now is the value of new Date()
exportToIptables(rules, now) ==
    LET enabledRules == enabledRulesOf(rules)
    IN  preamble(Len(enabledRules), now)
        \o blocksOf(enabledRules, Len(enabledRules))
        \o trailer

(***************************************************************************)
(* exportToJSON and the decode half of handleImport (RuleSetCodec)         *)
(*                                                                         *)
(* A Date is its time value in milliseconds, or InvalidDate.  The text of  *)
(* a file is the JSON value it denotes, or Unparsable when JSON.parse      *)
(* throws on it; a JSON value is a record with its type.  The calendar     *)
(* part of an ISO timestamp is written as the count of whole seconds.      *)
(***************************************************************************)

\* Date.now().toString(36) + Math.random().toString(36).substr(2, 9): the
\* clock reading and the random tail
generateId(now, tail) == <<now, tail>>

InvalidDate == [valid |-> FALSE, time |-> 0]

DateOf(t) == [valid |-> TRUE, time |-> t]

\* Date.prototype.toISOString for a valid Date: seconds, '.', three digits
\* of milliseconds, 'Z'
isoText(t) == dec(t \div 1000) \o <<".">> \o decPad(t % 1000, 3) \o <<"Z">>

\* new Date(text): the time value of an ISO timestamp, else an invalid Date
parseDate(text) ==
    LET g == split(text, ".")
    IN  IF /\ Len(g) = 2
           /\ digitsBetween(g[1], 1, 9)
           /\ Len(g[2]) = 4 /\ g[2][4] = "Z"
           /\ digitsBetween(SubSeq(g[2], 1, 3), 3, 3)
        THEN DateOf(digitPrefix(g[1], 0) * 1000 + digitPrefix(SubSeq(g[2], 1, 3), 0))
        ELSE InvalidDate

\* what new Date() is given for a field the record does not have
Str_undefined == <<"undefined">>

\* rule => ({ ...rule, createdAt: rule.createdAt.toISOString(), updatedAt: ... })
jsonOfRule(rule) ==
    [ type |-> "object",
      id |-> rule.id, name |-> rule.name, action |-> rule.action,
      protocol |-> rule.protocol,
      sourceIp |-> rule.sourceIp, sourcePort |-> rule.sourcePort,
      destinationIp |-> rule.destinationIp, destinationPort |-> rule.destinationPort,
      priority |-> rule.priority, enabled |-> rule.enabled,
      description |-> rule.description,
      createdAt |-> isoText(rule.createdAt.time),
      updatedAt |-> isoText(rule.updatedAt.time) ]

Unparsable == [tag |-> "unparsable"]

JsonText(v) == [tag |-> "json", value |-> v]

\* toISOString throws a RangeError on an invalid Date
Thrown == [tag |-> "thrown"]

\* some rule.createdAt.toISOString() or rule.updatedAt.toISOString() throws
hasInvalidDate(rules) ==
    \E i \in 1..Len(rules) : ~rules[i].createdAt.valid \/ ~rules[i].updatedAt.valid

\* the text exportToJSON returns; now is the value of new Date()
exportToJSON(rules, now) ==
    IF hasInvalidDate(rules)
    THEN Thrown
    ELSE JsonText([ type |-> "object", hasRules |-> TRUE,
                    version |-> "1.0", exportDate |-> isoText(now),
                    totalRules |-> Len(rules),
                    rules |-> [ type |-> "array",
                                items |-> [i \in 1..Len(rules) |-> jsonOfRule(rules[i])] ] ])

\* a JSON value is truthy unless it is null, false, 0 or ""
truthy(v) ==
    CASE v.type = "null" -> FALSE
      [] v.type = "boolean" -> v.b
      [] v.type = "number" -> v.n # 0
      [] v.type = "string" -> v.s # <<>>
      [] OTHER -> TRUE

\* a version that only knows the wrapped document
importedRulesOfWrappedOnly(parsed) ==
    IF parsed.type = "object" /\ parsed.hasRules /\ truthy(parsed.rules)
    THEN parsed.rules ELSE [type |-> "null"]

\* const importedRules = parsed.rules || parsed
\* (reading a property of null throws; an array or a scalar has no rules)
importedRulesOf(parsed) ==
    IF parsed.type = "object" /\ parsed.hasRules /\ truthy(parsed.rules)
    THEN parsed.rules ELSE parsed

\* rule => rule.id && rule.name && rule.action, on an item of the list: a
\* field the item does not have, or has empty, is falsy; a number or a string
\* has none of the fields
hasRequired(rec) ==
    rec.type = "object" /\ rec.id # <<>> /\ rec.name # <<>> /\ rec.action # ""

\* rule.id on an item that is null throws a TypeError
filterThrows(items) == \E i \in 1..Len(items) : items[i].type = "null"

\* a decode that keeps the present moment instead of the document's text
reparseLosing(text) == DateOf(0)

\* createdAt: new Date(rule.createdAt)
reparse(text) == parseDate(text)

\* rule => ({ ...rule, id: generateId(), createdAt: new Date(rule.createdAt),
\*            updatedAt: new Date(rule.updatedAt) })
ruleOfJson(rec, newId) ==
    [ id |-> newId, name |-> rec.name, action |-> rec.action, protocol |-> rec.protocol,
      sourceIp |-> rec.sourceIp, sourcePort |-> rec.sourcePort,
      destinationIp |-> rec.destinationIp, destinationPort |-> rec.destinationPort,
      priority |-> rec.priority, enabled |-> rec.enabled,
      description |-> rec.description,
      createdAt |-> reparse(rec.createdAt),
      updatedAt |-> reparse(rec.updatedAt) ]

\* the try block of reader.onload up to the length test: the outcome is
\* "FormatError" (the catch branch) or the accepted records, each with the
\* id that generateId returned for it (ids[k] for the k-th accepted record)
decodeRuleSet(content, ids) ==
    IF content.tag # "json" THEN [outcome |-> "FormatError", rules |-> <<>>, total |-> 0]
    ELSE IF content.value.type = "null"
    THEN [outcome |-> "FormatError", rules |-> <<>>, total |-> 0]
    ELSE LET importedRules == importedRulesOf(content.value)
         IN  IF importedRules.type # "array"
             THEN [outcome |-> "FormatError", rules |-> <<>>, total |-> 0]
             ELSE IF filterThrows(importedRules.items)
             THEN [outcome |-> "FormatError", rules |-> <<>>, total |-> 0]
             ELSE LET kept == SelectSeq(importedRules.items, hasRequired)
                  IN  [ outcome |-> "Decoded",
                        rules |-> [k \in 1..Len(kept) |-> ruleOfJson(kept[k], ids[k])],
                        total |-> Len(importedRules.items) ]

\* how many ids a decode of this content draws from generateId
idsNeeded(content) ==
    IF content.tag # "json" \/ content.value.type = "null" THEN 0
    ELSE LET importedRules == importedRulesOf(content.value)
         IN  IF importedRules.type # "array" THEN 0
             ELSE IF filterThrows(importedRules.items) THEN 0
             ELSE Len(SelectSeq(importedRules.items, hasRequired))

(***************************************************************************)
(* State                                                                   *)
(***************************************************************************)

VARIABLES
    pc,              \* position of the engine call under study
    call,            \* the engine function called and its arguments
    ret,             \* what the call returned
    isLoading,       \* App: the sample data is not loaded yet
    rules,           \* App: the rule collection (the array held in state)
    filteredRules,   \* App: the list view
    searchTerm,      \* App: search box
    filterAction,    \* App: 'ALL' | 'ALLOW' | 'DENY'
    filterStatus,    \* App: 'ALL' | 'ENABLED' | 'DISABLED'
    showRuleBuilder, \* App: the rule form is open
    editingRule,     \* App: <<>> or <<the rule being edited>>
    formData,        \* RuleBuilder: the fields of the form
    errors,          \* RuleBuilder: the validation errors shown
    isSubmitting,    \* RuleBuilder: a submission is waiting for its save
    pending,         \* handleSubmit suspended at its await: <<>> or <<rule>>
    now,             \* the clock, in milliseconds
    alertMsg,        \* the last alert shown
    imp,             \* history: the last file read and the collection before it
    added,           \* history: how many rules were ever added
    events           \* how many user events are still to come

callVars == <<pc, call, ret>>

appVars ==
    <<isLoading, rules, filteredRules, searchTerm, filterAction, filterStatus,
      showRuleBuilder, editingRule, formData, errors, isSubmitting, pending, now,
      alertMsg, imp, added, events>>

vars == <<callVars, appVars>>

(***************************************************************************)
(* Inputs of the validators                                                *)
(***************************************************************************)

ip4(a, b, c, d) == a \o <<".">> \o b \o <<".">> \o c \o <<".">> \o d

GoodA == ip4(dec(10), dec(0), dec(0), dec(1))

GoodB == ip4(dec(10), dec(0), dec(0), dec(255))

BadOctetIp == ip4(dec(999), dec(0), dec(0), dec(1))

SuspiciousNet == ip4(dec(192), dec(168), dec(100), dec(0)) \o <<"/">> \o dec(24)

OctetSamples ==
    { dec(0), dec(1), dec(255), dec(256), dec(999), dec(1000),
      <<"0", "1">>, <<"0", "0", "1">>, <<"0", "0", "0", "1">>,
      <<>>, <<"a">>, <<"1", "a">>, <<" ", "1">>, <<"-", "1">> }

SingleSamples ==
    { ip4(o, dec(0), dec(0), dec(1)) : o \in OctetSamples }
    \cup { ip4(dec(10), o, dec(0), dec(1)) : o \in OctetSamples }
    \cup { ip4(dec(10), dec(0), o, dec(1)) : o \in OctetSamples }
    \cup { ip4(dec(10), dec(0), dec(0), o) : o \in OctetSamples }
    \cup { dec(10) \o <<".">> \o dec(0) \o <<".">> \o dec(1),
           GoodA \o <<".">> \o dec(1),
           GoodA \o <<" ">>, <<" ">> \o GoodA, GoodA \o <<".">>,
           <<"x">> \o GoodA, GoodA \o <<"x">> }

PrefixSamples ==
    { dec(0), dec(8), dec(24), dec(32), dec(33), dec(99), dec(100),
      <<"0", "5">>, <<"0", "3", "2">>, <<>>, <<"a">>, <<"2", "a">> }

CidrSamples ==
    { a \o <<"/">> \o q :
        a \in {GoodA, BadOctetIp, Str_Star, Str_ANY, GoodA \o <<"/">> \o dec(24),
               GoodA \o <<"-">> \o GoodB},
        q \in PrefixSamples }

RangeOperands ==
    { GoodA, GoodB, BadOctetIp, GoodA \o <<"/">> \o dec(24), Str_Star, Str_ANY,
      Str_any, <<>>, GoodA \o <<"-">> \o GoodB }

RangeSamples == { a \o <<"-">> \o b : a \in RangeOperands, b \in RangeOperands }

WildSamples ==
    { Str_Star, Str_ANY, Str_any, <<"A", "n", "y">>, <<"a", "N", "y">>,
      <<"a", "n", "Y">>, <<"*", "*">>, <<" ", "a", "n", "y">>, <<"a", "n", "y", " ">>,
      <<"A", "N", "Y", "X">>, <<"a", "n">>, <<>>, <<" ">> }

AddressSamples ==
    SingleSamples \cup CidrSamples \cup RangeSamples \cup WildSamples

PortSamples ==
    { Str_Star, Str_ANY, Str_any, <<"A", "n", "y">>,
      dec(22), dec(0), dec(1), dec(65535), dec(65536), <<"0", "8", "0">>,
      dec(80) \o <<",">> \o dec(443),
      dec(80) \o <<",">> \o <<" ">> \o dec(443),
      dec(80) \o <<",">>, <<",">> \o dec(80), dec(80) \o <<",", ",">> \o dec(443),
      dec(80) \o <<",">> \o dec(0),
      dec(90) \o <<"-">> \o dec(80), dec(80) \o <<"-">> \o dec(90),
      dec(80) \o <<"-">> \o dec(80), dec(0) \o <<"-">> \o dec(5),
      dec(1) \o <<"-">> \o dec(65536), dec(1) \o <<"-">> \o dec(65535),
      dec(80) \o <<"-">>, <<"-">> \o dec(80), <<"-">>,
      dec(80) \o <<"-">> \o dec(90) \o <<"-">> \o dec(100),
      dec(80) \o <<"-">> \o dec(90) \o <<"-">>,
      dec(1) \o <<"-">> \o dec(2) \o <<",">> \o dec(3) \o <<"-">> \o dec(4),
      dec(1) \o <<"-">> \o dec(2) \o <<",">> \o dec(4) \o <<"-">> \o dec(3),
      Str_Star \o <<",">> \o dec(80), Str_any \o <<",">> \o dec(80),
      dec(80) \o <<"-">> \o Str_any,
      dec(80) \o <<"a", "b", "c">>, <<"a", "b", "c">>, <<"a">> \o dec(80),
      dec(80) \o <<"-">> \o dec(90) \o <<"x">>,
      <<"0", "x", "5", "0">>, <<"+">> \o dec(80), dec(1) \o <<".">> \o dec(5),
      dec(8) \o <<" ">> \o dec(0),
      <<" ">> \o dec(80) \o <<" ">>, <<>>, <<" ">> }

NameSamples == { <<>>, <<" ">>, <<"a">>, <<" ", "a", " ">> }

FormAddressSamples == { <<>>, <<" ">>, Str_Star, Str_any, GoodA, BadOctetIp, SuspiciousNet }

FormPortSamples == { <<>>, <<" ">>, Str_Star, dec(22), dec(0), <<"a", "b", "c">> }

\* RuleFormData
FormSamples ==
    [ name : NameSamples, action : {"ALLOW"}, protocol : {"TCP", "ICMP", "ALL"},
      sourceIp : FormAddressSamples, sourcePort : FormPortSamples,
      destinationIp : FormAddressSamples, destinationPort : FormPortSamples,
      description : {<<>>} ]

ValidatorCalls ==
    { [fn |-> "validateIP", ip |-> a] : a \in AddressSamples }
    \cup { [fn |-> "validatePort", port |-> q, protocol |-> pr] :
             q \in PortSamples, pr \in Protocols }
    \cup { [fn |-> "validateRule", rule |-> f] : f \in FormSamples }

NoCall == [fn |-> "none"]

\* the form as RuleBuilder initialises and resets it
defaultForm ==
    [ name |-> <<>>, action |-> "ALLOW", protocol |-> "TCP",
      sourceIp |-> Str_Star, sourcePort |-> Str_Star,
      destinationIp |-> Str_Star, destinationPort |-> Str_Star,
      description |-> <<>> ]

\* alert(text), with the numbers its template interpolates
Alert(text, args) == [text |-> text, args |-> args]

NoAlert == Alert("none", <<>>)

InvalidFormatAlert ==
    Alert("Invalid JSON file format. Please check your file and try again.", <<>>)

NoValidRulesAlert == Alert("No valid rules found in the imported file", <<>>)

ImportedAlert(n) == Alert("Successfully imported ${validRules.length} rule(s)", <<n>>)

NoImport ==
    [ content |-> [tag |-> "none"], outcome |-> "none", accepted |-> 0, total |-> 0,
      before |-> <<>>, after |-> <<>> ]

\* the App as it is constructed: useState initial values
AppConstructed ==
    /\ isLoading = TRUE
    /\ rules = <<>>
    /\ filteredRules = <<>>
    /\ searchTerm = <<>>
    /\ filterAction = "ALL"
    /\ filterStatus = "ALL"
    /\ showRuleBuilder = FALSE
    /\ editingRule = <<>>
    /\ formData = defaultForm
    /\ errors = <<>>
    /\ isSubmitting = FALSE
    /\ pending = <<>>
    /\ alertMsg = NoAlert
    /\ imp = NoImport
    /\ added = 0

(***************************************************************************)
(* The validators applied to drawn inputs                                  *)
(***************************************************************************)

InitValidators ==
    /\ AppConstructed /\ now = 0 /\ events = 0
    /\ pc = "ready"
    /\ call \in ValidatorCalls
    /\ ret = FALSE

CallValidateIP ==
    /\ pc = "ready" /\ call.fn = "validateIP"
    /\ ret' = validateIP(call.ip)
    /\ pc' = "done"
    /\ UNCHANGED <<call, appVars>>

CallValidatePort ==
    /\ pc = "ready" /\ call.fn = "validatePort"
    /\ ret' = validatePort(call.port, call.protocol)
    /\ pc' = "done"
    /\ UNCHANGED <<call, appVars>>

CallValidateRule ==
    /\ pc = "ready" /\ call.fn = "validateRule"
    /\ ret' = validateRule(call.rule)
    /\ pc' = "done"
    /\ UNCHANGED <<call, appVars>>

NextValidators == CallValidateIP \/ CallValidatePort \/ CallValidateRule

SpecValidators == InitValidators /\ [][NextValidators]_vars

(***************************************************************************)
(* The address and port grammars as the specification words them           *)
(***************************************************************************)

\* `*`, or `ANY` in any letter case
WildcardToken(s) ==
    \/ s = <<"*">>
    \/ Len(s) = 3 /\ s[1] \in {"a", "A"} /\ s[2] \in {"n", "N"} /\ s[3] \in {"y", "Y"}

\* a decimal numeral of at most w digits for a number in lo..hi
NumeralIn(s, lo, hi, w) ==
    \E n \in lo..hi : \E k \in 1..w : Len(dec(n)) <= k /\ s = decPad(n, k)

\* four dot-separated decimal octets, each in [0,255]
SingleIPv4(s) ==
    \E i \in 1..Len(s), j \in 1..Len(s), k \in 1..Len(s) :
        /\ i < j /\ j < k
        /\ s[i] = "." /\ s[j] = "." /\ s[k] = "."
        /\ NumeralIn(SubSeq(s, 1, i - 1), 0, 255, 3)
        /\ NumeralIn(SubSeq(s, i + 1, j - 1), 0, 255, 3)
        /\ NumeralIn(SubSeq(s, j + 1, k - 1), 0, 255, 3)
        /\ NumeralIn(SubSeq(s, k + 1, Len(s)), 0, 255, 3)

\* <ipv4>/<prefix>, prefix in [0,32]
CidrBlock(s) ==
    \E i \in 1..Len(s) :
        /\ s[i] = "/"
        /\ SingleIPv4(SubSeq(s, 1, i - 1))
        /\ NumeralIn(SubSeq(s, i + 1, Len(s)), 0, 32, 2)

\* <ipv4>-<ipv4>, in either numeric order
AddressRange(s) ==
    \E i \in 1..Len(s) :
        /\ s[i] = "-"
        /\ SingleIPv4(SubSeq(s, 1, i - 1))
        /\ SingleIPv4(SubSeq(s, i + 1, Len(s)))

AddressGrammar(s) ==
    WildcardToken(s) \/ SingleIPv4(s) \/ CidrBlock(s) \/ AddressRange(s)

\* a well-formed integer: digits only, at least one
WellFormedInt(s) == s # <<>> /\ \A i \in 1..Len(s) : IsDigit(s[i])

IntIn(s, lo, hi) ==
    WellFormedInt(s) /\ digitPrefix(s, 0) >= lo /\ digitPrefix(s, 0) <= hi

\* a-b: exactly two operands, each an integer in [1,65535], a <= b
PortRange(s) ==
    \E i \in 1..Len(s) :
        /\ s[i] = "-"
        /\ LET a == trim(SubSeq(s, 1, i - 1))
               b == trim(SubSeq(s, i + 1, Len(s)))
           IN  /\ IntIn(a, 1, 65535) /\ IntIn(b, 1, 65535)
               /\ digitPrefix(a, 0) <= digitPrefix(b, 0)

PortToken(s) == WildcardToken(s) \/ IntIn(s, 1, 65535) \/ PortRange(s)

\* split on commas, trim, every token valid
PortGrammar(s) ==
    LET g == split(s, ",")
    IN  \A i \in 1..Len(g) : PortToken(trim(g[i]))

(***************************************************************************)
(* Claims on the validators (checked under SpecValidators)                 *)
(***************************************************************************)

Returned(fn) == pc = "done" /\ call.fn = fn

\* C5: isValidAddress (validateIP) returns true exactly for a wildcard token,
\* a single IPv4 with octets in [0,255], a CIDR block with prefix in [0,32],
\* or a range of two single IPv4 addresses in either order; every other
\* string is rejected.
C5_AddressGrammar ==
    Returned("validateIP") => (ret = AddressGrammar(call.ip))

\* C5 case: a range whose start is numerically greater than its end was
\* accepted, and 10.0.0.0/33-like input is among the inputs.
C5_Witness ==
    /\ Returned("validateIP")
    /\ call.ip = GoodB \o <<"-">> \o GoodA
    /\ ret = TRUE

\* C6: for a protocol other than ICMP, isValidPort accepts a non-wildcard
\* spec if and only if every comma-separated, trimmed token is a wildcard, an
\* integer in [1,65535] or a range a-b of two such integers with a <= b;
\* malformed tokens make the spec invalid.
C6_PortGrammar ==
    (Returned("validatePort") /\ call.protocol # "ICMP" /\ ~WildcardToken(call.port))
        => (ret = PortGrammar(call.port))

\* C7: a wildcard spec is valid for every protocol, every spec is valid for
\* ICMP, and validateRule reports no port error for a form whose protocol is
\* ICMP.
C7_WildcardAndIcmp ==
    /\ (Returned("validatePort") /\ (WildcardToken(call.port) \/ call.protocol = "ICMP"))
          => ret = TRUE
    /\ (Returned("validateRule") /\ call.rule.protocol = "ICMP")
          => \A i \in 1..Len(ret) : ret[i].field \notin {"sourcePort", "destinationPort"}

\* C7 case: a malformed port spec was judged valid because the protocol is ICMP.
C7_Witness ==
    /\ Returned("validatePort")
    /\ call.protocol = "ICMP"
    /\ call.port = <<"a", "b", "c">>
    /\ ret = TRUE

FieldOrder == <<"name", "sourceIp", "destinationIp", "sourcePort", "destinationPort">>

\* the check of one field fails, as the specification lists the checks
CheckFails(form, f) ==
    CASE f = "name" -> trim(form.name) = <<>>
      [] f = "sourceIp" -> form.sourceIp = <<>> \/ ~validateIP(form.sourceIp)
      [] f = "destinationIp" -> form.destinationIp = <<>> \/ ~validateIP(form.destinationIp)
      [] f = "sourcePort" ->
            form.sourcePort # <<>> /\ ~validatePort(form.sourcePort, form.protocol)
      [] f = "destinationPort" ->
            form.destinationPort # <<>> /\ ~validatePort(form.destinationPort, form.protocol)

\* C8: validateRule returns exactly the subsequence of name, source address,
\* destination address, sourcePort, destinationPort whose checks fail, in
\* that order, one error per failing field; it is empty exactly when every
\* check passes.
C8_ErrorsAreFailingFields ==
    Returned("validateRule") =>
        LET Failing(f) == CheckFails(call.rule, f)
        IN  /\ [i \in 1..Len(ret) |-> ret[i].field] = SelectSeq(FieldOrder, Failing)
            /\ Len(ret) <= 5
            /\ (ret = <<>>) <=> (\A i \in 1..5 : ~CheckFails(call.rule, FieldOrder[i]))

\* C8 case: a form failing all five checks got five errors.
C8_Witness ==
    /\ Returned("validateRule")
    /\ Len(ret) = 5
    /\ call.rule.sourceIp = <<>>
    /\ call.rule.destinationIp = BadOctetIp

(***************************************************************************)
(* Inputs of the script compiler                                           *)
(***************************************************************************)

MaxCompileRules == 3

MaxPriority == 2

\* the form data a rule was saved from
formOf(rule) ==
    [name |-> rule.name, action |-> rule.action, protocol |-> rule.protocol,
     sourceIp |-> rule.sourceIp, sourcePort |-> rule.sourcePort,
     destinationIp |-> rule.destinationIp, destinationPort |-> rule.destinationPort,
     description |-> rule.description]

\* one enabled rule with every combination of protocol, address and port
\* forms; only rules that validateRule accepts, as the form path saves them
ClauseRules ==
    { r \in [ id : {<<0, 1>>}, name : {<<"a">>}, action : Actions, protocol : Protocols,
              sourceIp : {Str_Star, Str_ANY, Str_any, <<"A", "n", "y">>, GoodA, SuspiciousNet},
              sourcePort : {<<>>, Str_Star, Str_ANY, Str_any, dec(22)},
              destinationIp : {Str_Star, Str_any, GoodB},
              destinationPort : {Str_Star, Str_any, dec(80) \o <<",">> \o dec(443)},
              priority : {1}, enabled : {TRUE}, description : {<<>>, <<"d">>},
              createdAt : {DateOf(0)}, updatedAt : {DateOf(0)} ] :
        validateRule(formOf(r)) = <<>> }

RuleNames == <<"a", "b", "c", "d", "e", "f", "g", "h">>

\* the rule at position i of a collection that varies priority and enabled
orderRule(i, prio, en) ==
    [ id |-> <<0, i>>, name |-> <<RuleNames[i]>>, action |-> "ALLOW", protocol |-> "TCP",
      sourceIp |-> Str_Star, sourcePort |-> Str_Star,
      destinationIp |-> Str_Star, destinationPort |-> dec(22),
      priority |-> prio, enabled |-> en, description |-> <<>>,
      createdAt |-> DateOf(0), updatedAt |-> DateOf(0) ]

OrderCollections ==
    UNION { { [i \in 1..n |-> orderRule(i, pr[i], en[i])] :
                pr \in [1..n -> 0..MaxPriority], en \in [1..n -> BOOLEAN] } :
            n \in 0..MaxCompileRules }

CompilerCalls ==
    { [fn |-> "exportToIptables", rules |-> <<r>>, now |-> 0] : r \in ClauseRules }
    \cup { [fn |-> "exportToIptables", rules |-> rs, now |-> 0] : rs \in OrderCollections }

InitCompiler ==
    /\ AppConstructed /\ now = 0 /\ events = 0
    /\ pc = "ready"
    /\ call \in CompilerCalls
    /\ ret = FALSE

CallExportToIptables ==
    /\ pc = "ready" /\ call.fn = "exportToIptables"
    /\ ret' = exportToIptables(call.rules, call.now)
    /\ pc' = "done"
    /\ UNCHANGED <<call, appVars>>

NextCompiler == CallExportToIptables

SpecCompiler == InitCompiler /\ [][NextCompiler]_vars

(***************************************************************************)
(* Claims on the script compiler (checked under SpecCompiler)              *)
(***************************************************************************)

IsRuleLine(l) == l.kind = "rule"

IsCommandLine(l) == l.kind = "command"

IsBlockLine(l) == l.kind \in {"rule", "description", "command"}

\* the rule of the collection that has this name (names are distinct there)
RuleNamed(rs, n) == rs[CHOOSE i \in 1..Len(rs) : rs[i].name = n]

\* C1: exportToIptables emits one comment+directive block for each enabled
\* rule and none for a disabled rule, and the blocks appear in non-decreasing
\* priority order.
C1_BlocksEnabledInPriorityOrder ==
    Returned("exportToIptables") =>
        LET heads == SelectSeq(ret, IsRuleLine)
            cmds == SelectSeq(ret, IsCommandLine)
            body == SelectSeq(ret, IsBlockLine)
            rs == call.rules
            enabled == { i \in 1..Len(rs) : rs[i].enabled }
        IN  /\ Len(heads) = Cardinality(enabled)
            /\ Len(cmds) = Len(heads)
            /\ { heads[k].name : k \in 1..Len(heads) } = { rs[i].name : i \in enabled }
            \* each comment line is followed by its directive
            /\ \A k \in 1..Len(body) :
                  body[k].kind = "rule" =>
                      /\ k < Len(body)
                      /\ body[k + 1].kind = "command"
                         \/ /\ body[k + 1].kind = "description"
                            /\ k + 1 < Len(body)
                            /\ body[k + 2].kind = "command"
            /\ \A k \in 1..Len(heads) : \A m \in 1..Len(heads) :
                  k < m => RuleNamed(rs, heads[k].name).priority
                             <= RuleNamed(rs, heads[m].name).priority

\* C1 case: priorities 2 then 0 with a disabled rule between them; the
\* priority-0 rule's block comes first and the disabled rule has no block.
C1_Witness ==
    /\ Returned("exportToIptables")
    /\ Len(call.rules) = 3
    /\ call.rules[1].priority = 2 /\ call.rules[1].enabled
    /\ ~call.rules[2].enabled
    /\ call.rules[3].priority = 0 /\ call.rules[3].enabled
    /\ LET heads == SelectSeq(ret, IsRuleLine)
       IN  Len(heads) = 2 /\ heads[1].name = call.rules[3].name

HasOpt(cmd, o) == \E k \in 1..Len(cmd.clauses) : cmd.clauses[k].opt = o

ArgOf(cmd, o) == cmd.clauses[CHOOSE k \in 1..Len(cmd.clauses) : cmd.clauses[k].opt = o].arg

\* the directive of the k-th enabled rule in script order, with that rule
Directives ==
    LET cmds == SelectSeq(ret, IsCommandLine)
        rs == enabledRulesOf(call.rules)
    IN  { <<cmds[k], rs[k]>> : k \in 1..Len(cmds) }

\* C3: the source-match clause (-s) is present iff sourceAddress is not a
\* wildcard token, and the destination-match clause (-d) iff
\* destinationAddress is not one, the wildcard tokens being `*` and `ANY` in
\* any letter case; a present clause carries the literal address.
C3_AddressClauseIffNotWildcard ==
    Returned("exportToIptables") =>
        \A d \in Directives :
            /\ HasOpt(d[1], "-s") <=> ~WildcardToken(d[2].sourceIp)
            /\ HasOpt(d[1], "-s") => ArgOf(d[1], "-s") = d[2].sourceIp
            /\ HasOpt(d[1], "-d") <=> ~WildcardToken(d[2].destinationIp)
            /\ HasOpt(d[1], "-d") => ArgOf(d[1], "-d") = d[2].destinationIp

\* C4: a source-port (destination-port) clause is present iff the protocol
\* is TCP or UDP and the port is non-empty and not a wildcard token (`*`,
\* `ANY`, in any letter case); ICMP and ALL never get a port clause.
C4_PortClauseIffNotWildcard ==
    Returned("exportToIptables") =>
        \A d \in Directives :
            /\ HasOpt(d[1], "--sport") <=>
                  /\ d[2].protocol \in {"TCP", "UDP"}
                  /\ d[2].sourcePort # <<>>
                  /\ ~WildcardToken(d[2].sourcePort)
            /\ HasOpt(d[1], "--dport") <=>
                  /\ d[2].protocol \in {"TCP", "UDP"}
                  /\ d[2].destinationPort # <<>>
                  /\ ~WildcardToken(d[2].destinationPort)

\* a line without its timestamp or its count
Masked(l) == IF l.kind \in {"generated", "total"} THEN [kind |-> l.kind] ELSE l

\* the script of the empty collection, compiled at another time
EmptyScript == exportToIptables(<<>>, 1)

\* the number of lines of the trailer: two comment lines and an empty line
TrailerLength == 3

\* the fixed directives of the preamble, in the order of the specification
PreambleMarks ==
    << Text("#!/bin/bash"), Text("iptables -F"), Text("iptables -P INPUT DROP"),
       Text("iptables -A INPUT -i lo -j ACCEPT"),
       Text("iptables -A INPUT -m state --state ESTABLISHED,RELATED -j ACCEPT") >>

RECURSIVE MarksFrom(_, _, _)
\* the marks from the m-th on are lines of the text, in their order, at or
\* after line k
MarksFrom(lines, m, k) ==
    IF m > Len(PreambleMarks) THEN TRUE
    ELSE IF k > Len(lines) THEN FALSE
    ELSE IF lines[k] = PreambleMarks[m] THEN MarksFrom(lines, m + 1, k + 1)
    ELSE MarksFrom(lines, m, k + 1)

\* C18: the compiled script is the fixed preamble, then exactly one block per
\* enabled rule numbered 1..n consecutively, then the trailing commented
\* logging suggestion; preamble and trailer are the same for every input
\* apart from the timestamp and the count, the header count equals n, and a
\* collection with no enabled rule yields the full preamble with zero blocks.
C18_PreambleBlocksTrailer ==
    Returned("exportToIptables") =>
        LET rs == call.rules
            n == Cardinality({ i \in 1..Len(rs) : rs[i].enabled })
            P == Len(EmptyScript) - TrailerLength
            heads == SelectSeq(ret, IsRuleLine)
        IN  /\ Len(ret) >= Len(EmptyScript)
            /\ \A k \in 1..P : Masked(ret[k]) = Masked(EmptyScript[k])
            /\ MarksFrom(SubSeq(ret, 1, P), 1, 1)
            /\ \E k \in 1..P : ret[k] = [kind |-> "total", count |-> n]
            /\ \E k \in 1..P : ret[k] = [kind |-> "generated", at |-> call.now]
            /\ \A k \in 1..TrailerLength :
                  ret[Len(ret) - TrailerLength + k]
                      = EmptyScript[Len(EmptyScript) - TrailerLength + k]
            /\ \A k \in (P + 1)..(Len(ret) - TrailerLength) :
                  ret[k].kind \in {"rule", "description", "command", "blank"}
            /\ Len(heads) = n
            /\ \A k \in 1..n : heads[k].index = k
            /\ Len(SelectSeq(ret, IsCommandLine)) = n
            /\ n = 0 => Len(ret) = Len(EmptyScript)

\* C18 case: a collection of two rules, both disabled, compiled to the
\* preamble and the trailer with no block between them.
C18_Witness ==
    /\ Returned("exportToIptables")
    /\ Len(call.rules) = 2
    /\ ~call.rules[1].enabled /\ ~call.rules[2].enabled
    /\ Len(ret) = Len(EmptyScript)
    /\ \E k \in 1..Len(ret) : ret[k] = [kind |-> "total", count |-> 0]

(***************************************************************************)
(* Inputs of the codec: encode, then decode what was encoded               *)
(***************************************************************************)

MaxCodecRules == 3

MaxRandom == 2

TimeSamples == {0, 7, 999, 1000, 61001}

\* one rule with every combination of the fields the codec converts
CodecRules ==
    [ id : {<<0, 1>>}, name : {<<"a">>}, action : Actions, protocol : {"TCP", "ICMP"},
      sourceIp : {Str_Star, GoodA}, sourcePort : {<<>>, dec(22)},
      destinationIp : {Str_Star}, destinationPort : {Str_Star},
      priority : {0, 5}, enabled : BOOLEAN, description : {<<>>, <<"d">>},
      createdAt : {DateOf(t) : t \in TimeSamples},
      updatedAt : {DateOf(t) : t \in TimeSamples} ]

\* the rule at position i of a longer collection, in one of two variants
codecRule(i, late) ==
    [ id |-> <<0, i>>, name |-> <<RuleNames[i]>>, action |-> "DENY", protocol |-> "UDP",
      sourceIp |-> SuspiciousNet, sourcePort |-> Str_Star,
      destinationIp |-> Str_Star, destinationPort |-> dec(53),
      priority |-> IF late THEN 1 ELSE i, enabled |-> ~late, description |-> <<>>,
      createdAt |-> DateOf(1000 * i),
      updatedAt |-> DateOf(IF late THEN 1000 * i + 1 ELSE 1000 * i) ]

CodecCollections ==
    UNION { { [i \in 1..n |-> codecRule(i, late[i])] : late \in [1..n -> BOOLEAN] } :
            n \in 0..MaxCodecRules }

CodecCalls ==
    { [fn |-> "roundTrip", rules |-> <<r>>, now |-> 2000] : r \in CodecRules }
    \cup { [fn |-> "roundTrip", rules |-> rs, now |-> 2000] : rs \in CodecCollections }

InitCodec ==
    /\ AppConstructed /\ now = 0 /\ events = 0
    /\ pc = "ready"
    /\ call \in CodecCalls
    /\ ret = FALSE

CallExportToJSON ==
    /\ pc = "ready" /\ call.fn = "roundTrip"
    /\ ret' = exportToJSON(call.rules, call.now)
    /\ pc' = "encoded"
    /\ UNCHANGED <<call, appVars>>

\* the exported text read back by handleImport
CallDecode ==
    /\ pc = "encoded" /\ call.fn = "roundTrip"
    /\ \E tails \in [1..idsNeeded(ret) -> 1..MaxRandom] :
          ret' = decodeRuleSet(ret, [k \in 1..idsNeeded(ret) |->
                                        generateId(call.now, tails[k])])
    /\ pc' = "done"
    /\ UNCHANGED <<call, appVars>>

NextCodec == CallExportToJSON \/ CallDecode

SpecCodec == InitCodec /\ [][NextCodec]_vars

(***************************************************************************)
(* Claims on the codec (checked under SpecCodec)                           *)
(***************************************************************************)

\* every field of a rule but its id
BusinessFields(r) ==
    [ name |-> r.name, action |-> r.action, protocol |-> r.protocol,
      sourceIp |-> r.sourceIp, sourcePort |-> r.sourcePort,
      destinationIp |-> r.destinationIp, destinationPort |-> r.destinationPort,
      priority |-> r.priority, enabled |-> r.enabled, description |-> r.description,
      createdAt |-> r.createdAt, updatedAt |-> r.updatedAt ]

\* C9: decoding encodeRuleSet(rs) accepts every record and yields rules of
\* the same number and order whose name, action, protocol, addresses, ports,
\* priority, enabled flag, description, createdAt and updatedAt equal those
\* of rs.
C9_RoundTrip ==
    Returned("roundTrip") =>
        /\ ret.outcome = "Decoded"
        /\ ret.total = Len(call.rules)
        /\ Len(ret.rules) = Len(call.rules)
        /\ \A i \in 1..Len(call.rules) :
              BusinessFields(ret.rules[i]) = BusinessFields(call.rules[i])

\* C9 case: a collection of three rules, with timestamps that have a
\* milliseconds part, a disabled rule and equal priorities, was decoded.
C9_Witness ==
    /\ Returned("roundTrip")
    /\ Len(call.rules) = 3
    /\ Len(ret.rules) = 3
    /\ ~call.rules[1].enabled
    /\ call.rules[3].priority = call.rules[1].priority
    /\ ret.rules[3].updatedAt = DateOf(3001)

(***************************************************************************)
(* The App component: sample data                                          *)
(***************************************************************************)

SampleName1 ==
    << "A", "l", "l", "o", "w", " ", "S", "S", "H", " ", "A", "c", "c", "e",
       "s", "s" >>

SampleDescription1 ==
    << "A", "l", "l", "o", "w", " ", "S", "S", "H", " ", "c", "o", "n", "n",
       "e", "c", "t", "i", "o", "n", "s", " ", "f", "r", "o", "m", " ", "a",
       "n", "y", " ", "s", "o", "u", "r", "c", "e", " ", "f", "o", "r", " ",
       "r", "e", "m", "o", "t", "e", " ", "a", "d", "m", "i", "n", "i", "s",
       "t", "r", "a", "t", "i", "o", "n" >>

\* new Date('2024-01-1xThh:mm:00'), in milliseconds after the first sample date
SampleTime1 == 0

sampleRule1(id) ==
    [ id |-> id, name |-> SampleName1, action |-> "ALLOW", protocol |-> "TCP",
      sourceIp |-> <<"*">>, sourcePort |-> <<"*">>,
      destinationIp |-> <<"*">>,
      destinationPort |-> <<"2", "2">>,
      priority |-> 1, enabled |-> TRUE,
      description |-> SampleDescription1,
      createdAt |-> DateOf(SampleTime1), updatedAt |-> DateOf(SampleTime1) ]

SampleName2 ==
    << "A", "l", "l", "o", "w", " ", "W", "e", "b", " ", "T", "r", "a", "f",
       "f", "i", "c" >>

SampleDescription2 ==
    << "A", "l", "l", "o", "w", " ", "H", "T", "T", "P", " ", "a", "n", "d",
       " ", "H", "T", "T", "P", "S", " ", "t", "r", "a", "f", "f", "i", "c",
       " ", "f", "o", "r", " ", "w", "e", "b", " ", "s", "e", "r", "v", "i",
       "c", "e", "s" >>

\* new Date('2024-01-1xThh:mm:00'), in milliseconds after the first sample date
SampleTime2 == 1800000

sampleRule2(id) ==
    [ id |-> id, name |-> SampleName2, action |-> "ALLOW", protocol |-> "TCP",
      sourceIp |-> <<"*">>, sourcePort |-> <<"*">>,
      destinationIp |-> <<"*">>,
      destinationPort |-> <<"8", "0", ",", "4", "4", "3">>,
      priority |-> 2, enabled |-> TRUE,
      description |-> SampleDescription2,
      createdAt |-> DateOf(SampleTime2), updatedAt |-> DateOf(SampleTime2) ]

SampleName3 ==
    << "B", "l", "o", "c", "k", " ", "S", "u", "s", "p", "i", "c", "i", "o",
       "u", "s", " ", "N", "e", "t", "w", "o", "r", "k" >>

SampleDescription3 ==
    << "B", "l", "o", "c", "k", " ", "a", "l", "l", " ", "t", "r", "a", "f",
       "f", "i", "c", " ", "f", "r", "o", "m", " ", "s", "u", "s", "p", "i",
       "c", "i", "o", "u", "s", " ", "I", "P", " ", "r", "a", "n", "g", "e",
       " ", "i", "d", "e", "n", "t", "i", "f", "i", "e", "d", " ", "b", "y",
       " ", "s", "e", "c", "u", "r", "i", "t", "y", " ", "t", "e", "a", "m" >>

\* new Date('2024-01-1xThh:mm:00'), in milliseconds after the first sample date
SampleTime3 == 81900000

sampleRule3(id) ==
    [ id |-> id, name |-> SampleName3, action |-> "DENY", protocol |-> "ALL",
      sourceIp |-> <<"1", "9", "2", ".", "1", "6", "8", ".", "1", "0", "0", ".", "0", "/", "2", "4">>, sourcePort |-> <<"*">>,
      destinationIp |-> <<"*">>,
      destinationPort |-> <<"*">>,
      priority |-> 3, enabled |-> TRUE,
      description |-> SampleDescription3,
      createdAt |-> DateOf(SampleTime3), updatedAt |-> DateOf(SampleTime3) ]

SampleName4 ==
    << "A", "l", "l", "o", "w", " ", "D", "N", "S", " ", "Q", "u", "e", "r",
       "i", "e", "s" >>

SampleDescription4 ==
    << "A", "l", "l", "o", "w", " ", "D", "N", "S", " ", "q", "u", "e", "r",
       "i", "e", "s", " ", "t", "o", " ", "G", "o", "o", "g", "l", "e", " ",
       "D", "N", "S", " ", "s", "e", "r", "v", "e", "r", "s" >>

\* new Date('2024-01-1xThh:mm:00'), in milliseconds after the first sample date
SampleTime4 == 100200000

sampleRule4(id) ==
    [ id |-> id, name |-> SampleName4, action |-> "ALLOW", protocol |-> "UDP",
      sourceIp |-> <<"*">>, sourcePort |-> <<"*">>,
      destinationIp |-> <<"8", ".", "8", ".", "8", ".", "8", ",", "8", ".", "8", ".", "4", ".", "4">>,
      destinationPort |-> <<"5", "3">>,
      priority |-> 4, enabled |-> TRUE,
      description |-> SampleDescription4,
      createdAt |-> DateOf(SampleTime4), updatedAt |-> DateOf(SampleTime4) ]

SampleName5 ==
    << "B", "l", "o", "c", "k", " ", "P", "2", "P", " ", "T", "r", "a", "f",
       "f", "i", "c" >>

SampleDescription5 ==
    << "B", "l", "o", "c", "k", " ", "B", "i", "t", "T", "o", "r", "r", "e",
       "n", "t", " ", "a", "n", "d", " ", "o", "t", "h", "e", "r", " ", "P",
       "2", "P", " ", "t", "r", "a", "f", "f", "i", "c", " ", "(", "c", "u",
       "r", "r", "e", "n", "t", "l", "y", " ", "d", "i", "s", "a", "b", "l",
       "e", "d", " ", "f", "o", "r", " ", "t", "e", "s", "t", "i", "n", "g",
       ")" >>

\* new Date('2024-01-1xThh:mm:00'), in milliseconds after the first sample date
SampleTime5 == 195300000

sampleRule5(id) ==
    [ id |-> id, name |-> SampleName5, action |-> "DENY", protocol |-> "TCP",
      sourceIp |-> <<"*">>, sourcePort |-> <<"*">>,
      destinationIp |-> <<"*">>,
      destinationPort |-> <<"6", "8", "8", "1", "-", "6", "8", "8", "9">>,
      priority |-> 5, enabled |-> FALSE,
      description |-> SampleDescription5,
      createdAt |-> DateOf(SampleTime5), updatedAt |-> DateOf(SampleTime5) ]

\* the five calls of generateId in loadSampleData return distinct ids; their
\* random tails are taken apart from the tails later calls draw
sampleRules(t) ==
    << sampleRule1(generateId(t, MaxRandom + 1)),
       sampleRule2(generateId(t, MaxRandom + 2)),
       sampleRule3(generateId(t, MaxRandom + 3)),
       sampleRule4(generateId(t, MaxRandom + 4)),
       sampleRule5(generateId(t, MaxRandom + 5)) >>

\* the clock when the App starts: after the dates of the sample data
StartTime == SampleTime5 + 1000

(***************************************************************************)
(* The App component: rendering                                            *)
(***************************************************************************)

\* (a, b) => b.updatedAt.getTime() - a.updatedAt.getTime(); getTime() of an
\* invalid Date is NaN, and sort takes a NaN result for 0
compareUpdatedDesc(a, b) ==
    IF a.updatedAt.valid /\ b.updatedAt.valid
    THEN b.updatedAt.time - a.updatedAt.time ELSE 0

RECURSIVE insertByUpdated(_, _)
insertByUpdated(sorted, x) ==
    IF sorted = <<>> THEN <<x>>
    ELSE IF compareUpdatedDesc(x, sorted[Len(sorted)]) < 0
    THEN Append(insertByUpdated(SubSeq(sorted, 1, Len(sorted) - 1), x), sorted[Len(sorted)])
    ELSE Append(sorted, x)

RECURSIVE sortPrefixByUpdated(_, _)
sortPrefixByUpdated(s, n) ==
    IF n = 0 THEN <<>> ELSE insertByUpdated(sortPrefixByUpdated(s, n - 1), s[n])

\* Dashboard: rules.sort((a, b) => b.updatedAt.getTime() - a.updatedAt.getTime())
\* sorts the array it was given, which is the array held in the App's state
dashboardSort(rs) == sortPrefixByUpdated(rs, Len(rs))

\* String.prototype.includes(term)
includesText(text, term) ==
    \E i \in 1..(Len(text) - Len(term) + 1) : SubSeq(text, i, i + Len(term) - 1) = term

\* the search predicate of the filter effect (term is already lower-cased)
matchesTerm(rule, term) ==
    \/ includesText(toLowerCase(rule.name), term)
    \/ includesText(toLowerCase(rule.description), term)
    \/ includesText(toLowerCase(rule.sourceIp), term)
    \/ includesText(toLowerCase(rule.destinationIp), term)
    \/ includesText(toLowerCase(rule.sourcePort), term)
    \/ includesText(toLowerCase(rule.destinationPort), term)
    \/ includesText(toLowerCase(tagText(rule.protocol)), term)

filtersActive(term, fa, fs) == term # <<>> \/ fa # "ALL" \/ fs # "ALL"

\* the three filter steps of the effect, each a new array
applyFilters(rs, term, fa, fs) ==
    LET Keep(rule) ==
            /\ term = <<>> \/ matchesTerm(rule, toLowerCase(term))
            /\ fa = "ALL" \/ rule.action = fa
            /\ fs = "ALL" \/ (IF fs = "ENABLED" THEN rule.enabled ELSE ~rule.enabled)
    IN  SelectSeq(rs, Keep)

\* The array held in `rules` once the App has settled after a change of the
\* rules or of a filter.  The Dashboard sorts it in place; the filter effect,
\* when no filter is set, has filtered === rules and sorts that same array
\* by priority, and setFilteredRules makes the Dashboard render and sort it
\* once more.
settledRules(rs, term, fa, fs) ==
    IF filtersActive(term, fa, fs)
    THEN dashboardSort(rs)
    ELSE dashboardSort(sortByPriority(dashboardSort(rs)))

\* the array held in filteredRules once the App has settled
settledView(rs, term, fa, fs) ==
    IF filtersActive(term, fa, fs)
    THEN sortByPriority(applyFilters(dashboardSort(rs), term, fa, fs))
    ELSE settledRules(rs, term, fa, fs)

\* const nextPriority = Math.max(...rules.map(r => r.priority), 0) + 1
nextPriority(rs) ==
    LET ps == { rs[i].priority : i \in 1..Len(rs) } \cup {0}
    IN  (CHOOSE m \in ps : \A q \in ps : q <= m) + 1

(***************************************************************************)
(* The App component: files the user may import                            *)
(***************************************************************************)

\* a record of an exported document
docRecord(tail, nm, prio, created, updated) ==
    [ type |-> "object",
      id |-> <<1, tail>>, name |-> nm, action |-> "ALLOW", protocol |-> "TCP",
      sourceIp |-> Str_Star, sourcePort |-> Str_Star,
      destinationIp |-> Str_Star, destinationPort |-> dec(22),
      priority |-> prio, enabled |-> TRUE, description |-> <<>>,
      createdAt |-> isoText(created), updatedAt |-> isoText(updated) ]

\* two records of priority 1, the second updated after the first, both
\* after the sample rules
TieRecords ==
    << docRecord(1, <<"x">>, 1, StartTime, StartTime),
       docRecord(2, <<"y">>, 1, StartTime, StartTime + 1000) >>

JsonArray(items) == [type |-> "array", items |-> items]

\* { version, exportDate, totalRules, rules }
WrappedDoc(items) ==
    [ type |-> "object", hasRules |-> TRUE, version |-> "1.0",
      exportDate |-> isoText(0), totalRules |-> Len(items), rules |-> JsonArray(items) ]

\* two records written at the same time after the sample rules, the second
\* of priority 0
UnrankedRecords ==
    << docRecord(7, <<"w">>, 1, StartTime, StartTime),
       docRecord(8, <<"z">>, 0, StartTime, StartTime) >>

ListPayloads == { <<>>, TieRecords, UnrankedRecords }

\* payloads that are a list, bare or wrapped
ListFiles ==
    { JsonText(JsonArray(l)) : l \in ListPayloads }
    \cup { JsonText(WrappedDoc(l)) : l \in ListPayloads }

\* payloads that are not a list in either form
NonListFiles ==
    { Unparsable,
      JsonText([type |-> "null"]),
      JsonText([type |-> "number", n |-> 5]),
      JsonText([type |-> "string", s |-> <<"x">>]),
      JsonText([type |-> "object", hasRules |-> FALSE]),
      JsonText([type |-> "object", hasRules |-> TRUE,
                rules |-> [type |-> "string", s |-> <<"x">>]]),
      JsonText([type |-> "object", hasRules |-> TRUE, rules |-> [type |-> "null"]]) }

\* a list whose first item is null and whose second is a well-formed record
NullItemRecords == << [type |-> "null"], docRecord(3, <<"g">>, 7, 1000, 1000) >>

\* a well-formed record and a record without action
PartialRecords ==
    << docRecord(3, <<"g">>, 7, 1000, 1000),
       [docRecord(4, <<"h">>, 8, 1000, 1000) EXCEPT !.action = ""] >>

\* a single record without action
UnusableRecords == << [docRecord(4, <<"h">>, 8, 1000, 1000) EXCEPT !.action = ""] >>

\* a record without createdAt
UndatedRecords ==
    << [docRecord(5, <<"u">>, 9, 1000, 1000) EXCEPT !.createdAt = Str_undefined] >>

\* a record created after it was last updated
BackdatedRecords == << docRecord(6, <<"b">>, 9, 3000, 1000) >>

\* wrapped documents whose lists hold such items
FaultyListFiles ==
    { JsonText(WrappedDoc(l)) :
        l \in { NullItemRecords, PartialRecords, UnusableRecords, UndatedRecords,
                BackdatedRecords } }

ImportFiles == ListFiles \cup NonListFiles \cup FaultyListFiles

(***************************************************************************)
(* The App component: handlers                                             *)
(***************************************************************************)

MaxEvents == 3

MaxTicks == 1

MaxRules == 7

MaxTarget == 2

filterVars == <<searchTerm, filterAction, filterStatus>>

formVars == <<showRuleBuilder, editingRule, formData, errors, isSubmitting, pending>>

Min(a, b) == IF a < b THEN a ELSE b

\* a user event: the page is up and the budget of events is not used up
UserEvent == pc = "app" /\ ~isLoading /\ events > 0 /\ events' = events - 1

\* a click on the page behind the modal form
OnPage == UserEvent /\ ~showRuleBuilder

\* a render of the App throws, which takes the page down: ExportModal
\* computes exportToJSON(rules) whether or not it is open
renderThrows(rs) == hasInvalidDate(rs)

\* setRules(next), then the renders and the filter effect that follow
SetRules(next) ==
    /\ rules' = settledRules(next, searchTerm, filterAction, filterStatus)
    /\ filteredRules' = settledView(next, searchTerm, filterAction, filterStatus)

\* the rule items shown, the first MaxTarget of them being clicked on
Shown == { filteredRules[i] : i \in 1..Min(Len(filteredRules), MaxTarget) }

\* the history field seq of a rule: its number in the order in which rules
\* were added (in a submission that waits for its save, the number of the
\* rule being edited, or 0 for a new rule)
withSeq(rule, n) == rule @@ [seq |-> n]

\* loadSampleData, after its delay: setRules(sampleRules); setIsLoading(false)
LoadSampleData ==
    /\ isLoading
    /\ LET loaded == sampleRules(now)
       IN  SetRules([i \in 1..Len(loaded) |-> withSeq(loaded[i], i)])
    /\ added' = 5
    /\ isLoading' = FALSE
    /\ UNCHANGED <<callVars, filterVars, formVars, now, alertMsg, imp, events>>

\* time passes
Tick ==
    /\ now < StartTime + MaxTicks
    /\ now' = now + 1
    /\ UNCHANGED <<callVars, isLoading, rules, filteredRules, filterVars, formVars,
                   alertMsg, imp, added, events>>

\* the filter effect's inputs change: setSearchTerm, setFilterAction,
\* setFilterStatus, handleClearFilters
SetFilters(term, fa, fs) ==
    /\ OnPage
    /\ <<term, fa, fs>> # <<searchTerm, filterAction, filterStatus>>
    /\ searchTerm' = term /\ filterAction' = fa /\ filterStatus' = fs
    /\ rules' = settledRules(rules, term, fa, fs)
    /\ filteredRules' = settledView(rules, term, fa, fs)
    /\ UNCHANGED <<callVars, isLoading, formVars, now, alertMsg, imp, added>>

SearchTerms == { <<>>, <<"S", "S", "H">> }

ChangeSearch == \E term \in SearchTerms : SetFilters(term, filterAction, filterStatus)

ChangeFilterAction == \E fa \in {"ALL", "ALLOW", "DENY"} : SetFilters(searchTerm, fa, filterStatus)

ChangeFilterStatus ==
    \E fs \in {"ALL", "ENABLED", "DISABLED"} : SetFilters(searchTerm, filterAction, fs)

ClearFilters == SetFilters(<<>>, "ALL", "ALL")

\* handleToggleRule(id)
toggled(rs, id, t) ==
    [i \in 1..Len(rs) |->
        IF rs[i].id = id
        THEN [rs[i] EXCEPT !.enabled = ~rs[i].enabled, !.updatedAt = DateOf(t)]
        ELSE rs[i]]

ToggleRule ==
    /\ OnPage
    /\ \E r \in Shown : SetRules(toggled(rules, r.id, now))
    /\ UNCHANGED <<callVars, isLoading, filterVars, formVars, now, alertMsg, imp, added>>

\* handleDeleteRule(id), the user answering the confirm dialog
DeleteRule ==
    /\ OnPage
    /\ \E r \in Shown : \E confirmed \in BOOLEAN :
          IF (\E i \in 1..Len(rules) : rules[i].id = r.id) /\ confirmed
          THEN LET Other(x) == x.id # r.id IN SetRules(SelectSeq(rules, Other))
          ELSE UNCHANGED <<rules, filteredRules>>
    /\ UNCHANGED <<callVars, isLoading, filterVars, formVars, now, alertMsg, imp, added>>

\* the New Rule button
OpenNew ==
    /\ OnPage
    /\ showRuleBuilder' = TRUE /\ editingRule' = <<>>
    /\ formData' = defaultForm /\ errors' = <<>>
    /\ UNCHANGED <<callVars, isLoading, rules, filteredRules, filterVars, isSubmitting,
                   pending, now, alertMsg, imp, added>>

\* handleEditRule(rule)
OpenEdit ==
    /\ OnPage
    /\ \E r \in Shown :
          /\ showRuleBuilder' = TRUE /\ editingRule' = <<r>>
          /\ formData' = formOf(r) /\ errors' = <<>>
    /\ UNCHANGED <<callVars, isLoading, rules, filteredRules, filterVars, isSubmitting,
                   pending, now, alertMsg, imp, added>>

NameInputs == { <<>>, <<"n">> }

\* handleInputChange(field, value) on the name and the action
InputChange ==
    /\ UserEvent /\ showRuleBuilder
    /\ \/ \E v \in NameInputs :
             /\ v # formData.name
             /\ formData' = [formData EXCEPT !.name = v]
             /\ errors' = SelectSeq(errors, LAMBDA e : e.field # "name")
       \/ \E v \in Actions :
             /\ v # formData.action
             /\ formData' = [formData EXCEPT !.action = v]
             /\ errors' = SelectSeq(errors, LAMBDA e : e.field # "action")
    /\ UNCHANGED <<callVars, isLoading, rules, filteredRules, filterVars, showRuleBuilder,
                   editingRule, isSubmitting, pending, now, alertMsg, imp, added>>

\* handleProtocolChange(protocol)
ProtocolChange ==
    /\ UserEvent /\ showRuleBuilder
    /\ \E protocol \in Protocols :
          /\ protocol # formData.protocol
          /\ formData' = IF protocol = "ICMP"
                         THEN [formData EXCEPT !.protocol = protocol,
                                               !.sourcePort = Str_Star,
                                               !.destinationPort = Str_Star]
                         ELSE [formData EXCEPT !.protocol = protocol]
          /\ errors' = SelectSeq(errors,
                           LAMBDA e : e.field \notin {"sourcePort", "destinationPort"})
    /\ UNCHANGED <<callVars, isLoading, rules, filteredRules, filterVars, showRuleBuilder,
                   editingRule, isSubmitting, pending, now, alertMsg, imp, added>>

\* a submission that leaves the action of the form out of the rule
builtRuleDefaultAction(editing, form, t, tail, prio) ==
    [ id |-> IF editing # <<>> THEN editing[1].id ELSE generateId(t, tail),
      name |-> form.name, action |-> "ALLOW", protocol |-> form.protocol,
      sourceIp |-> form.sourceIp, sourcePort |-> form.sourcePort,
      destinationIp |-> form.destinationIp, destinationPort |-> form.destinationPort,
      description |-> form.description,
      priority |-> IF editing # <<>> /\ editing[1].priority # 0
                   THEN editing[1].priority ELSE prio,
      enabled |-> IF editing # <<>> THEN editing[1].enabled ELSE TRUE,
      createdAt |-> IF editing # <<>> THEN editing[1].createdAt ELSE DateOf(t),
      updatedAt |-> DateOf(t) ]

\* a submission that stamps createdAt anew on every save
builtRuleRecreated(editing, form, t, tail, prio) ==
    [ id |-> IF editing # <<>> THEN editing[1].id ELSE generateId(t, tail),
      name |-> form.name, action |-> form.action, protocol |-> form.protocol,
      sourceIp |-> form.sourceIp, sourcePort |-> form.sourcePort,
      destinationIp |-> form.destinationIp, destinationPort |-> form.destinationPort,
      description |-> form.description,
      priority |-> IF editing # <<>> /\ editing[1].priority # 0
                   THEN editing[1].priority ELSE prio,
      enabled |-> IF editing # <<>> THEN editing[1].enabled ELSE TRUE,
      createdAt |-> DateOf(t),
      updatedAt |-> DateOf(t) ]

\* the rule handleSubmit builds before its await; tail is what Math.random
\* gives generateId
builtRule(editing, form, t, tail, prio) ==
    [ id |-> IF editing # <<>> THEN editing[1].id ELSE generateId(t, tail),
      name |-> form.name, action |-> form.action, protocol |-> form.protocol,
      sourceIp |-> form.sourceIp, sourcePort |-> form.sourcePort,
      destinationIp |-> form.destinationIp, destinationPort |-> form.destinationPort,
      description |-> form.description,
      priority |-> IF editing # <<>> /\ editing[1].priority # 0
                   THEN editing[1].priority ELSE prio,
      enabled |-> IF editing # <<>> THEN editing[1].enabled ELSE TRUE,
      createdAt |-> IF editing # <<>> THEN editing[1].createdAt ELSE DateOf(t),
      updatedAt |-> DateOf(t) ]

\* handleSubmit up to its await (the submit button is disabled while
\* isSubmitting)
Submit ==
    /\ UserEvent /\ showRuleBuilder /\ ~isSubmitting
    /\ LET validationErrors == validateRule(formData)
       IN  IF Len(validationErrors) > 0
           THEN /\ errors' = validationErrors
                /\ UNCHANGED <<isSubmitting, pending>>
           ELSE /\ \E tail \in 1..MaxRandom :
                      pending' = <<withSeq(builtRule(editingRule, formData, now, tail,
                                                     nextPriority(rules)),
                                           IF editingRule # <<>>
                                           THEN editingRule[1].seq ELSE 0)>>
                /\ isSubmitting' = TRUE
                /\ UNCHANGED errors
    /\ UNCHANGED <<callVars, isLoading, rules, filteredRules, filterVars, showRuleBuilder,
                   editingRule, formData, now, alertMsg, imp, added>>

\* handleSaveRule(rule): replace the rule with this id, or append
savedRules(rs, rule, n) ==
    IF \E i \in 1..Len(rs) : rs[i].id = rule.id
    THEN LET existingIndex == CHOOSE i \in 1..Len(rs) :
                                 rs[i].id = rule.id /\ \A j \in 1..(i - 1) : rs[j].id # rule.id
         IN  [rs EXCEPT ![existingIndex] = [rule EXCEPT !.seq = rs[existingIndex].seq]]
    ELSE Append(rs, [rule EXCEPT !.seq = n])

\* handleSubmit after its await: onSave(rule); setIsSubmitting(false); onClose()
SaveFires ==
    /\ pc = "app"
    /\ pending # <<>>
    /\ LET rule == pending[1]
           isNew == ~\E i \in 1..Len(rules) : rules[i].id = rule.id
       IN  /\ Len(rules) < MaxRules \/ ~isNew
           /\ SetRules(savedRules(rules, rule, added + 1))
           /\ added' = IF isNew THEN added + 1 ELSE added
    /\ pending' = <<>> /\ isSubmitting' = FALSE
    /\ showRuleBuilder' = FALSE /\ editingRule' = <<>>
    /\ formData' = defaultForm /\ errors' = <<>>
    /\ UNCHANGED <<callVars, isLoading, filterVars, now, alertMsg, imp, events>>

\* the Cancel button and the X of the form: onClose()
CloseForm ==
    /\ UserEvent /\ showRuleBuilder
    /\ showRuleBuilder' = FALSE /\ editingRule' = <<>>
    /\ formData' = defaultForm /\ errors' = <<>>
    /\ UNCHANGED <<callVars, isLoading, rules, filteredRules, filterVars, isSubmitting,
                   pending, now, alertMsg, imp, added>>

\* handleImport and reader.onload for a file with this content
ImportFile ==
    /\ UserEvent
    /\ \E content \in ImportFiles :
       \E tails \in [1..idsNeeded(content) -> 1..MaxRandom] :
          LET ids == [k \in 1..idsNeeded(content) |-> generateId(now, tails[k])]
              decoded == decodeRuleSet(content, ids)
              validRules == [k \in 1..Len(decoded.rules) |->
                                withSeq(decoded.rules[k], added + k)]
          IN  /\ Len(rules) + Len(validRules) <= MaxRules
              /\ IF decoded.outcome = "FormatError"
                 THEN /\ alertMsg' = InvalidFormatAlert
                      /\ UNCHANGED <<rules, filteredRules, added>>
                 ELSE IF Len(validRules) = 0
                 THEN /\ alertMsg' = NoValidRulesAlert
                      /\ UNCHANGED <<rules, filteredRules, added>>
                 ELSE /\ alertMsg' = ImportedAlert(Len(validRules))
                      /\ SetRules(rules \o validRules)
                      /\ added' = added + Len(validRules)
              \* the render that follows: ExportModal calls exportToJSON(rules)
              /\ pc' = IF renderThrows(rules') THEN "fault" ELSE pc
              /\ imp' = [ content |-> content, outcome |-> decoded.outcome,
                          accepted |-> Len(validRules), total |-> decoded.total,
                          before |-> rules,
                          after |-> rules' ]
    /\ UNCHANGED <<call, ret, isLoading, filterVars, formVars, now>>

Init ==
    /\ pc = "app" /\ call = NoCall /\ ret = FALSE
    /\ AppConstructed
    /\ now = StartTime
    /\ events = MaxEvents

Next ==
    \/ LoadSampleData
    \/ Tick
    \/ ChangeSearch
    \/ ChangeFilterAction
    \/ ChangeFilterStatus
    \/ ClearFilters
    \/ ToggleRule
    \/ DeleteRule
    \/ OpenNew
    \/ OpenEdit
    \/ InputChange
    \/ ProtocolChange
    \/ Submit
    \/ SaveFires
    \/ CloseForm
    \/ ImportFile

Spec == Init /\ [][Next]_vars

(***************************************************************************)
(* The App with the form, toggle and delete only, for a longer run of      *)
(* events                                                                  *)
(***************************************************************************)

MaxEditEvents == 4

InitEdits ==
    /\ pc = "app" /\ call = NoCall /\ ret = FALSE
    /\ AppConstructed
    /\ now = StartTime
    /\ events = MaxEditEvents

NextEdits ==
    \/ LoadSampleData
    \/ Tick
    \/ ToggleRule
    \/ DeleteRule
    \/ OpenNew
    \/ OpenEdit
    \/ InputChange
    \/ ProtocolChange
    \/ Submit
    \/ SaveFires
    \/ CloseForm

SpecEdits == InitEdits /\ [][NextEdits]_vars

(***************************************************************************)
(* The App with the creation of rules through the form and the import, for *)
(* an import that is applied while a submission waits for its save         *)
(***************************************************************************)

MaxCreateEvents == 4

InitCreate ==
    /\ pc = "app" /\ call = NoCall /\ ret = FALSE
    /\ AppConstructed
    /\ now = StartTime
    /\ events = MaxCreateEvents

NextCreate ==
    \/ LoadSampleData
    \/ OpenNew
    \/ InputChange
    \/ Submit
    \/ SaveFires
    \/ CloseForm
    \/ ImportFile

SpecCreate == InitCreate /\ [][NextCreate]_vars

(***************************************************************************)
(* Properties of the App                                                   *)
(***************************************************************************)

\* the names on the comment lines of the script compiled from the
\* collection, in the order of their blocks
compiledNames == 
    LET heads == SelectSeq(exportToIptables(rules, now), IsRuleLine)
    IN  [k \in 1..Len(heads) |-> heads[k].name]

\* the enabled rule of the collection that alone has this name
OnlyEnabledNamed(i) ==
    /\ rules[i].enabled
    /\ \A j \in 1..Len(rules) : rules[j].enabled /\ rules[j].name = rules[i].name => j = i

\* C2: after any sequence of create, edit, toggle, delete, import and
\* re-render operations, two enabled rules with equal priority appear in the
\* compiled script in the order in which they were first added to the
\* collection.
C2_TiesInInsertionOrder ==
    \A i \in 1..Len(rules) : \A j \in 1..Len(rules) :
        ( /\ OnlyEnabledNamed(i) /\ OnlyEnabledNamed(j)
          /\ rules[i].priority = rules[j].priority
          /\ rules[i].seq < rules[j].seq )
        => \A k \in 1..Len(compiledNames) : \A m \in 1..Len(compiledNames) :
              compiledNames[k] = rules[i].name /\ compiledNames[m] = rules[j].name
              => k < m

\* the records of a list payload, bare or wrapped
payloadOf(content) ==
    IF content.value.type = "array" THEN content.value.items ELSE content.value.rules.items

\* the rules of the collection that the last import added, in the order in
\* which it added them
importedBy(record) ==
    LET isNew(r) == \A i \in 1..Len(record.before) : record.before[i].seq # r.seq
        new == SelectSeq(record.after, isNew)
    IN  IF new = <<>> THEN <<>>
        ELSE LET lo == CHOOSE n \in { new[i].seq : i \in 1..Len(new) } :
                          \A i \in 1..Len(new) : n <= new[i].seq
             IN  [k \in 1..Len(new) |->
                    new[CHOOSE i \in 1..Len(new) : new[i].seq = lo + k - 1].name]

\* C10: decode accepts a bare list of records and a wrapped document with a
\* rules list, treating them identically; a payload that is not a list in
\* either form is reported as a format error, raises no uncaught fault, and
\* leaves the rule collection unchanged.
C10_ListOrFormatError ==
    imp.outcome # "none" =>
        /\ imp.content \in NonListFiles =>
              /\ imp.outcome = "FormatError"
              /\ imp.after = imp.before
              /\ alertMsg = InvalidFormatAlert
        /\ imp.content \in ListFiles =>
              LET kept == SelectSeq(payloadOf(imp.content), hasRequired)
              IN  /\ imp.outcome = "Decoded"
                  /\ imp.accepted = Len(kept)
                  /\ Len(imp.after) = Len(imp.before) + Len(kept)
                  /\ importedBy(imp) = [k \in 1..Len(kept) |-> kept[k].name]

\* C10 case: with rules in the collection, a file holding JSON null was
\* imported and was reported as a format error.
C10_Witness ==
    /\ imp.content = JsonText([type |-> "null"])
    /\ imp.outcome = "FormatError"
    /\ Len(imp.before) = 5
    /\ rules = imp.before

\* a record that has id, name and action
Usable(item) ==
    item.type = "object" /\ item.id # <<>> /\ item.name # <<>> /\ item.action # ""

\* the files whose payload is a list, bare or wrapped
AllListFiles == ListFiles \cup FaultyListFiles

\* C11: for every list payload, decode skips each record that lacks id, name
\* or action and still accepts every other record of the list; an unusable
\* record never makes the whole decode fail.
C11_UnusableRecordsSkipped ==
    imp.content \in AllListFiles =>
        LET usable == SelectSeq(payloadOf(imp.content), Usable)
        IN  /\ imp.outcome = "Decoded"
            /\ imp.accepted = Len(usable)
            /\ Len(imp.after) = Len(imp.before) + Len(usable)

\* C12: in every reachable state of the rule collection no two rules share
\* an id.
C12_IdsUnique ==
    \A i \in 1..Len(rules) : \A j \in 1..Len(rules) :
        i # j => rules[i].id # rules[j].id

\* C13: no rule with an invalid timestamp is ever added to the collection,
\* and exportToJSON never fails on a collection produced by imports.
C13_NoInvalidTimestamp ==
    /\ \A i \in 1..Len(rules) : rules[i].createdAt.valid /\ rules[i].updatedAt.valid
    /\ exportToJSON(rules, now) # Thrown

\* C14: every decode of a list payload reports both the number of accepted
\* records and the total number of records present, and a decode with 0
\* accepted is never reported as a successful import.
C14_ReportsAcceptedAndTotal ==
    (imp.content \in AllListFiles /\ imp.outcome = "Decoded") =>
        /\ alertMsg.args = <<imp.accepted, Len(payloadOf(imp.content))>>
        /\ imp.accepted = 0 => alertMsg.text # ImportedAlert(0).text

\* C15: in every reachable state every rule's addresses pass validateIP, and
\* every non-empty port of a rule whose protocol is not ICMP passes
\* validatePort for that protocol.
C15_PersistedRulesValid ==
    \A i \in 1..Len(rules) :
        /\ validateIP(rules[i].sourceIp)
        /\ validateIP(rules[i].destinationIp)
        /\ rules[i].protocol # "ICMP" =>
              /\ rules[i].sourcePort # <<>>
                    => validatePort(rules[i].sourcePort, rules[i].protocol)
              /\ rules[i].destinationPort # <<>>
                    => validatePort(rules[i].destinationPort, rules[i].protocol)

\* C16: in every reachable state every rule in the collection satisfies
\* updatedAt >= createdAt.
C16_UpdatedNotBeforeCreated ==
    \A i \in 1..Len(rules) :
        /\ rules[i].createdAt.valid /\ rules[i].updatedAt.valid
        /\ rules[i].updatedAt.time >= rules[i].createdAt.time

\* the rules that are in the collection before and after a step (a rule
\* being known by its history number) keep id and createdAt, and a step that
\* neither adds nor removes a rule changes the fields of at most one rule
FrameOfStep ==
    /\ \A i \in 1..Len(rules) : \A j \in 1..Len(rules') :
          rules[i].seq = rules'[j].seq =>
              /\ rules'[j].id = rules[i].id
              /\ rules'[j].createdAt = rules[i].createdAt
    /\ { rules[i].seq : i \in 1..Len(rules) } = { rules'[j].seq : j \in 1..Len(rules') }
          => Cardinality({ i \in 1..Len(rules) :
                             \E j \in 1..Len(rules') :
                                 rules'[j].seq = rules[i].seq /\ rules'[j] # rules[i] }) <= 1

\* no id is in use twice: the rules of the collection have distinct ids, and
\* a submission that waits for its save has the id of no rule but its own
NoSharedId ==
    /\ \A i \in 1..Len(rules) : \A j \in 1..Len(rules) :
          rules[i].id = rules[j].id => i = j
    /\ pending # <<>> =>
          \A i \in 1..Len(rules) :
              rules[i].id = pending[1].id => rules[i].seq = pending[1].seq

SaveStep == pending # <<>> /\ pending' = <<>>

\* C19: updatedAt is monotonic per rule under every interleaving of edit
\* submissions, form close, toggle, delete and import: no operation replaces
\* a rule's updatedAt by an earlier value, and no save overwrites a later
\* toggle with a stale snapshot.
C19_UpdatedAtMonotonic ==
    [][ /\ \A i \in 1..Len(rules) : \A j \in 1..Len(rules') :
              rules[i].seq = rules'[j].seq
                  => rules'[j].updatedAt.time >= rules[i].updatedAt.time
        /\ SaveStep =>
              \A i \in 1..Len(rules) :
                  rules[i].seq = pending[1].seq
                      => /\ rules[i].enabled = pending[1].enabled
                         /\ rules[i].updatedAt.time <= pending[1].updatedAt.time
      ]_vars

\* the positions of the rules that a step removes
Removed == { i \in 1..Len(rules) : \A j \in 1..Len(rules') : rules'[j].seq # rules[i].seq }

\* the rules of the collection that the step keeps, in their order
Kept == SelectSeq(rules, LAMBDA r : \E j \in 1..Len(rules') : rules'[j].seq = r.seq)

\* C20: a rule is removed only by an explicit, confirmed delete, which
\* removes exactly the rule with that id and keeps all other rules and their
\* relative order; and once a rule has been deleted, no later event (a
\* pending edit save included) puts a rule with that id back.
C20_DeleteIsFinal ==
    [][ /\ Removed # {} =>
              /\ events' = events - 1 /\ ~showRuleBuilder
              /\ \E i \in Removed : Removed = { k \in 1..Len(rules) : rules[k].id = rules[i].id }
              /\ rules' = Kept
        \* a rule whose id is not in the collection comes in as a new rule:
        \* by the sample load, by an import, or by the save of a creation
        /\ \A j \in 1..Len(rules') :
              (\A i \in 1..Len(rules) : rules[i].id # rules'[j].id)
                  => \/ isLoading
                     \/ imp' # imp
                     \/ SaveStep /\ pending[1].seq = 0
      ]_vars

\* the step is a press of the submit button of the open form (under
\* SpecEdits no other event leaves the form open and its data as they were)
SubmitStep ==
    /\ events' = events - 1
    /\ showRuleBuilder /\ ~isSubmitting
    /\ showRuleBuilder' /\ formData' = formData

\* C21: the form-submission path validates first.  A submit hands a rule to
\* the collection only if validateRule gave an empty list for the submitted
\* form data, and the saved rule's fields equal that form data; a submit
\* with at least one validation error leaves the collection unchanged,
\* records the errors and keeps the form open; and outside the sample load
\* the form fields of a rule change, or a rule comes in, only by such a save.
C21_SubmitValidatesFirst ==
    [][ /\ SubmitStep =>
              IF validateRule(formData) = <<>>
              THEN /\ rules' = rules
                   /\ Len(pending') = 1 /\ formOf(pending'[1]) = formData
              ELSE /\ rules' = rules /\ pending' = pending
                   /\ errors' = validateRule(formData)
                   /\ showRuleBuilder'
        /\ SaveStep =>
              /\ validateRule(formOf(pending[1])) = <<>>
              /\ \E j \in 1..Len(rules') :
                    /\ formOf(rules'[j]) = formOf(pending[1])
                    /\ rules'[j].updatedAt = pending[1].updatedAt
        /\ \A j \in 1..Len(rules') :
              \/ \E i \in 1..Len(rules) :
                    rules[i].seq = rules'[j].seq /\ formOf(rules[i]) = formOf(rules'[j])
              \/ isLoading
              \/ SaveStep
      ]_vars

\* a rule created through the form is in the collection, with the action
\* chosen in the form
C21_Witness ==
    \E i \in 1..Len(rules) :
        /\ rules[i].seq > 5
        /\ rules[i].name = <<"n">> /\ rules[i].action = "DENY"
        /\ validateRule(formOf(rules[i])) = <<>>

\* the step flips the enabled flag of a rule of the collection by a toggle
\* (a save may also write a flag, that of its snapshot)
ToggleStep ==
    /\ ~SaveStep
    /\ \E i \in 1..Len(rules) : \E j \in 1..Len(rules') :
          rules[i].seq = rules'[j].seq /\ rules[i].enabled # rules'[j].enabled

\* an id that no rule has
AbsentId == <<0, 0>>

\* what the toggle of id X does to the rules, apart from their order: the
\* rules with id X have enabled flipped and updatedAt set to the current
\* time, every other field and every other rule is as before, and the
\* number of rules is the same
ToggleEffect ==
    /\ Len(rules') = Len(rules)
    /\ \E i \in 1..Len(rules) :
          \A k \in 1..Len(rules) : \E j \in 1..Len(rules') :
              rules'[j] = IF rules[k].id = rules[i].id
                          THEN [rules[k] EXCEPT !.enabled = ~rules[k].enabled,
                                                !.updatedAt = DateOf(now)]
                          ELSE rules[k]

\* C22: toggle retains the rule in storage.  Toggling id X flips enabled of
\* the rule with id X and sets its updatedAt to the current time, changes no
\* other field of that rule, changes no other rule, and keeps the number and
\* the order of the rules; toggling an id not in the collection changes
\* nothing, and two toggles of X restore its original enabled value.
C22_ToggleFrame ==
    [][ /\ ToggleStep =>
              /\ ToggleEffect
              /\ \A i \in 1..Len(rules) : rules'[i].seq = rules[i].seq
        /\ toggled(rules, AbsentId, now) = rules
        /\ \A i \in 1..Len(rules) :
              toggled(toggled(rules, rules[i].id, now), rules[i].id, now)[i].enabled
                  = rules[i].enabled
      ]_vars

\* the statement of C22 without its clause on the order of the rules
C22_ToggleFrameUnordered ==
    [][ /\ ToggleStep => ToggleEffect
        /\ toggled(rules, AbsentId, now) = rules
        /\ \A i \in 1..Len(rules) :
              toggled(toggled(rules, rules[i].id, now), rules[i].id, now)[i].enabled
                  = rules[i].enabled
      ]_vars

\* the step is the save of an edit of the rule at position i
EditSave(i) == SaveStep /\ pending[1].seq = rules[i].seq

\* the rule at position i is, after the step, where this gives its place
EditKeepsPriority(i) ==
    \A j \in 1..Len(rules') :
        rules'[j].seq = rules[i].seq => rules'[j].priority = rules[i].priority

EditKeepsEnabled(i) ==
    \A j \in 1..Len(rules') :
        rules'[j].seq = rules[i].seq => rules'[j].enabled = rules[i].enabled

EditKeepsPosition(i) == Len(rules') = Len(rules) /\ rules'[i].seq = rules[i].seq

\* C23: editing an existing rule through the form replaces it in place.
\* For every rule of the collection, whatever its priority or enabled value
\* (priority 0 and rules added by import included), the saved rule keeps the
\* same priority, the same enabled flag and the same position in the
\* collection, and the number of rules does not change.
C23_EditReplacesInPlace ==
    [][ \A i \in 1..Len(rules) :
            EditSave(i) =>
                EditKeepsPriority(i) /\ EditKeepsEnabled(i) /\ EditKeepsPosition(i)
      ]_vars

\* the step changes a filter input, so that what it runs is the filter
\* effect and the renders around it and nothing else
ViewStep == <<searchTerm, filterAction, filterStatus>>' # <<searchTerm, filterAction, filterStatus>>

\* the step is the sample load, whose setRules is followed by the first
\* render of the Dashboard and the first run of the filter effect
LoadStep == isLoading /\ ~isLoading'

\* C24: read-only operations leave the rule collection unchanged.
\* Recomputing the filtered and sorted list view and rendering the dashboard
\* never change the content or the element order of the stored collection:
\* a change of the filters leaves it as it was, and after the sample load it
\* holds the sample rules in the order in which they were given to setRules.
\* (Compiling and encoding work on new arrays, made by filter and by map.)
C24_ReadOnlyKeepsCollection ==
    [][ /\ ViewStep => rules' = rules
        /\ LoadStep =>
              /\ Len(rules') = 5
              /\ \A i \in 1..Len(rules') : rules'[i].seq = i
      ]_vars

\* C25: closing the rule form (Cancel or X) discards the form.  If the form
\* is closed after Submit was pressed but before the deferred save fires,
\* that submission does not add or modify any rule: a save changes the
\* collection only when the form is still open as it is applied.
C25_ClosedFormSavesNothing ==
    [][ SaveStep /\ ~showRuleBuilder => rules' = rules ]_vars

\* the step is the save of a rule created through the form
CreateSave == SaveStep /\ pending[1].seq = 0

\* C26: a rule created through the form, when its save adds it to the
\* collection, has enabled = true and a priority that, at the moment it is
\* added, is at least 1 and strictly greater than the priority of every
\* rule already in the collection, so that it compiles after all of them.
C26_CreatedRuleRanksLast ==
    [][ CreateSave /\ Len(rules') = Len(rules) + 1 =>
            \A j \in 1..Len(rules') :
                rules'[j].seq = added + 1
                    => /\ rules'[j].enabled = TRUE
                       /\ rules'[j].priority >= 1
                       /\ \A i \in 1..Len(rules) :
                             rules'[j].priority > rules[i].priority
      ]_vars

\* the step applies an import
ImportStep == imp' # imp

\* the import left the collection as it was when it accepted no record or
\* ended in a format error
FailedImportKeepsRules ==
    imp'.outcome = "FormatError" \/ imp'.accepted = 0 => rules' = rules

\* C27: import only appends.  A successful import adds the accepted records
\* after all existing rules, in document order, and leaves every existing
\* rule and their order unchanged; an import that accepts zero records or
\* ends in a format error leaves the collection exactly as it was.
C27_ImportOnlyAppends ==
    [][ ImportStep =>
            /\ FailedImportKeepsRules
            /\ imp'.outcome # "FormatError" =>
                  /\ Len(rules') = Len(rules) + imp'.accepted
                  /\ \A i \in 1..Len(rules) : rules'[i] = rules[i]
                  /\ \A k \in 1..imp'.accepted : rules'[Len(rules) + k].seq = added + k
      ]_vars

\* the statement of C27 without its clauses on the order of the rules: the
\* existing rules are all kept as they were and the accepted records are
\* what is added
C27_ImportAddsOnly ==
    [][ ImportStep =>
            /\ FailedImportKeepsRules
            /\ imp'.outcome # "FormatError" =>
                  /\ Len(rules') = Len(rules) + imp'.accepted
                  /\ \A i \in 1..Len(rules) : \E j \in 1..Len(rules') : rules'[j] = rules[i]
                  /\ \A k \in 1..imp'.accepted :
                        \E j \in 1..Len(rules') : rules'[j].seq = added + k
      ]_vars

====
